---- MODULE Spec2Model ----
(***************************************************************************)
(* A model of the probe-rs J-Link SWD transaction engine                   *)
(* (probe-rs/src/probe/jlink/mod.rs) and of the Session core-attach        *)
(* dispatch (probe-rs/src/session.rs).                                     *)
(*                                                                         *)
(* The engine part models DAPAccess::read_register / write_register and    *)
(* JLink::swd_line_reset as a call stack of frames.  One step is taken per *)
(* swd_io transaction (the target's sampled answer is the step's input)    *)
(* and per return into a caller.                                           *)
(***************************************************************************)
EXTENDS Integers, Sequences, FiniteSets, TLC

VARIABLES
    stack,    \* call stack of the engine: read_register / write_register / swd_line_reset frames
    ret,      \* value a callee has just returned to the frame on top of the stack
    status,   \* "idle" | "running" | "done" | "exhausted" (call stack capacity exceeded)
    result,   \* value returned by the last finished top-level call
    obs,      \* observations of the current top-level call (history, not read by the engine)
    session,  \* the Session value: architecture, core states, log of the steps run on it
    life,     \* "none" | "live" | "failed" (Session::new returned Err) | "dropped"
    outcome,  \* value returned by the last Session operation
    handle,   \* <<n>> while the Core handle returned by core(n) is alive, else <<>>
    calls,    \* the core indices asked of the live session so far (history)
    call,     \* the register call whose bit sequences were built last: op, port, addr, value
    swd_io_sequence,  \* the SWDIO bits that call hands to swd_io
    direction,        \* the direction bits that call hands to swd_io
    probe,    \* the JLink value: current_ir_reg, jtag_idle_cycles, protocol, ... and the
              \* capabilities of the connected probe
    jop,      \* the last operation on the JLink: arguments, jtag_io calls made, result (history)
    jprev,    \* the trait operation before the last one: name, address, success (history)
    swo,      \* SWO: swo_config, and the locals, position and result of read_swo_timeout
    dbg       \* the debugger: DebugAdapter::last_known_status, and the request, core
              \* operations, events and result of the last process_next_request (history)

evars == <<stack, ret, status, result, obs>>
svars == <<session, life, outcome, handle, calls>>
cvars == <<call, swd_io_sequence, direction>>
jvars == <<probe, jop, jprev>>
wvars == <<swo>>
dvars == <<dbg>>
vars == <<stack, ret, status, result, obs, session, life, outcome, handle, calls,
          call, swd_io_sequence, direction, probe, jop, jprev, swo, dbg>>

(***************************************************************************)
(* Bounds and program constants                                            *)
(***************************************************************************)
\* Capacity of the call stack in frames.  The engine recurses into itself
\* for recovery; the real capacity is the thread's stack size.
MaxDepth == 3

\* A faulty variant of the retry bound: one attempt too many.
MaxRetries_OneMore == 5 + 1

\* `for retry in 0..5`
MaxRetries == 5

\* `for _ in 0..2` in swd_line_reset
LineResetTries == 2

\* `vec![true; 50]` in swd_line_reset
LineResetBits == 50

\* idle cycles appended to every write
WriteIdleCycles == 8

\* Debug-Port register addresses (architecture::arm::dp)
AbortAddress == 0
CtrlAddress == 4
RdBuffAddress == 12
DpidrAddress == 0

\* The register accesses a user of the engine makes.
Request(op, port, addr, value) == [op |-> op, port |-> port, addr |-> addr, value |-> value]
Requests ==
    { Request("read", "DebugPort", 4, 0), Request("read", "AccessPort", 12, 0),
      Request("write", "DebugPort", 8, 16), Request("write", "AccessPort", 0, 34) }

\* 32-bit words the target may deliver or the caller may write.  TLC's
\* integers are 32-bit signed, so the words are drawn below 2^31.
\*   0: no flag, 2: STICKYORUN, 32: STICKYERR, 34: both, 16/4/20: ABORT values
DataValues == {0, 2, 32, 34}

AckPatterns == [1..3 -> BOOLEAN]
AckOk == <<TRUE, FALSE, FALSE>>
AckWait == <<FALSE, TRUE, FALSE>>
AckFault == <<FALSE, FALSE, TRUE>>
AckNone == <<TRUE, TRUE, TRUE>>

(***************************************************************************)
(* Results                                                                 *)
(***************************************************************************)
Ok(v) == [ok |-> TRUE, val |-> v, err |-> "-"]
Err(e) == [ok |-> FALSE, val |-> 0, err |-> e]

\* A panic (todo!(), unwrap() of None, panic!()) ends the call.
Panic == Err("panic")
NoRet == [ok |-> FALSE, val |-> 0, err |-> "pending"]

(***************************************************************************)
(* Bit helpers                                                             *)
(***************************************************************************)
\* iter::repeat(b).take(n)
Repeat(b, n) == [i \in 1..n |-> b]

\* A faulty variant of ShiftOutBits: the most significant of the n bits is
\* pushed first.
RECURSIVE ShiftOutBits_MsbFirst(_, _)
ShiftOutBits_MsbFirst(value, n) ==
    IF n = 0 THEN <<>> ELSE ShiftOutBits_MsbFirst(value \div 2, n - 1) \o <<value % 2 = 1>>

\* `bit = value & 1 == 1; push(bit); value >>= 1` repeated n times
RECURSIVE ShiftOutBits(_, _)
ShiftOutBits(value, n) ==
    IF n = 0 THEN <<>> ELSE <<value % 2 = 1>> \o ShiftOutBits(value \div 2, n - 1)

\* A faulty variant of XorFold: parity starts as true.
RECURSIVE XorFold_Inverted(_)
XorFold_Inverted(bits) ==
    IF bits = <<>> THEN TRUE ELSE (Head(bits) # XorFold_Inverted(Tail(bits)))

\* parity ^= bit over the 32 data bits
RECURSIVE XorFold(_)
XorFold(bits) ==
    IF bits = <<>> THEN FALSE ELSE (Head(bits) # XorFold(Tail(bits)))

\* value.count_ones()
RECURSIVE CountOnes(_)
CountOnes(v) == IF v = 0 THEN 0 ELSE (v % 2) + CountOnes(v \div 2)

\* the bits from position i on, the one at position i weighing 1
RECURSIVE BitsValue(_, _, _)
BitsValue(bits, i, last) ==
    IF i > last THEN 0
    ELSE (IF bits[i] THEN 1 ELSE 0) + 2 * BitsValue(bits, i + 1, last)

\* the bits up to position i, the one at position i weighing 1
RECURSIVE BitsValueDown(_, _)
BitsValueDown(bits, i) ==
    IF i < 1 THEN 0
    ELSE (IF bits[i] THEN 1 ELSE 0) + 2 * BitsValueDown(bits, i - 1)

\* A faulty variant of bits_to_byte: the first bit is taken as the most
\* significant one.
bits_to_byte_MsbFirst(bits) ==
    BitsValueDown(bits, IF Len(bits) < 32 THEN Len(bits) ELSE 32)

\* bits_to_byte: `bit_val |= 1 << index` over the first 32 bits
bits_to_byte(bits) ==
    BitsValue(bits, 1, IF Len(bits) < 32 THEN Len(bits) ELSE 32)

\* Ctrl::sticky_orun / Ctrl::sticky_err (CTRL/STAT bits 1 and 5)
sticky_orun(ctrl) == (ctrl \div 2) % 2 = 1
sticky_err(ctrl) == (ctrl \div 32) % 2 = 1

\* Abort(0) with set_orunerrclr(o) (bit 4) and set_stkerrclr(e) (bit 2), as u32
AbortValue(o, e) == (IF o THEN 16 ELSE 0) + (IF e THEN 4 ELSE 0)

(***************************************************************************)
(* build_swd_transfer                                                      *)
(***************************************************************************)
\* A faulty variant of build_swd_transfer: a write has the single turnaround
\* bit of the ADI specification.
build_swd_transfer_OneTurnaround(port, op, value, address) ==
    LET apndp == (port = "AccessPort")
        direction_bit == (op = "read")
        a2 == (address \div 4) % 2 = 1
        a3 == (address \div 8) % 2 = 1
        parity == ((apndp # direction_bit) # a2) # a3
        request == <<FALSE, FALSE,
                     TRUE, apndp, direction_bit, a2, a3, parity, FALSE, TRUE,
                     FALSE, FALSE, FALSE>>
        data == ShiftOutBits(value, 32)
        io == IF op = "write"
              THEN request \o <<FALSE>> \o data \o <<XorFold(data)>>
              ELSE request \o Repeat(FALSE, 32) \o <<FALSE>> \o <<FALSE>>
        head == Repeat(TRUE, 2) \o Repeat(TRUE, 8) \o Repeat(FALSE, 3)
        dir == IF op = "read"
               THEN head \o Repeat(FALSE, 32) \o Repeat(FALSE, 1) \o Repeat(FALSE, 1)
               ELSE head \o Repeat(FALSE, 1) \o Repeat(TRUE, 32) \o Repeat(TRUE, 1)
    IN  [io |-> io, dir |-> dir]

\* A faulty variant of build_swd_transfer: the request carries the address
\* bits 0 and 1.
build_swd_transfer_LowAddressBits(port, op, value, address) ==
    LET apndp == (port = "AccessPort")
        direction_bit == (op = "read")
        a2 == address % 2 = 1
        a3 == (address \div 2) % 2 = 1
        parity == ((apndp # direction_bit) # a2) # a3
        request == <<FALSE, FALSE,
                     TRUE, apndp, direction_bit, a2, a3, parity, FALSE, TRUE,
                     FALSE, FALSE, FALSE>>
        data == ShiftOutBits(value, 32)
        io == IF op = "write"
              THEN request \o <<FALSE, FALSE>> \o data \o <<XorFold(data)>>
              ELSE request \o Repeat(FALSE, 32) \o <<FALSE>> \o <<FALSE>>
        head == Repeat(TRUE, 2) \o Repeat(TRUE, 8) \o Repeat(FALSE, 3)
        dir == IF op = "read"
               THEN head \o Repeat(FALSE, 32) \o Repeat(FALSE, 1) \o Repeat(FALSE, 1)
               ELSE head \o Repeat(FALSE, 2) \o Repeat(TRUE, 32) \o Repeat(TRUE, 1)
    IN  [io |-> io, dir |-> dir]

build_swd_transfer(port, op, value, address) ==
    LET apndp == (port = "AccessPort")
        direction_bit == (op = "read")
        a2 == (address \div 4) % 2 = 1
        a3 == (address \div 8) % 2 = 1
        parity == ((apndp # direction_bit) # a2) # a3
        request == <<FALSE, FALSE,
                     TRUE, apndp, direction_bit, a2, a3, parity, FALSE, TRUE,
                     FALSE, FALSE, FALSE>>
        data == ShiftOutBits(value, 32)
        io == IF op = "write"
              THEN request \o <<FALSE, FALSE>> \o data \o <<XorFold(data)>>
              ELSE request \o Repeat(FALSE, 32) \o <<FALSE>> \o <<FALSE>>
        head == Repeat(TRUE, 2) \o Repeat(TRUE, 8) \o Repeat(FALSE, 3)
        dir == IF op = "read"
               THEN head \o Repeat(FALSE, 32) \o Repeat(FALSE, 1) \o Repeat(FALSE, 1)
               ELSE head \o Repeat(FALSE, 2) \o Repeat(TRUE, 32) \o Repeat(TRUE, 1)
    IN  [io |-> io, dir |-> dir]

(***************************************************************************)
(* Frames and the wire                                                     *)
(***************************************************************************)
\* A frame of read_register / write_register (op "read" / "write") or of
\* swd_line_reset (op "line_reset").  retry is the loop variable, pc the place
\* the frame waits at, ctrl the local `ctrl`, result the local `result` of
\* swd_line_reset.
Frame(op, port, addr, value) ==
    [op |-> op, port |-> port, addr |-> addr, value |-> value,
     retry |-> 0, pc |-> "io", ctrl |-> 0, result |-> Ok(0)]

LineResetFrame == Frame("line_reset", "DebugPort", DpidrAddress, 0)

Top == stack[Len(stack)]
SetTop(f) == [stack EXCEPT ![Len(stack)] = f]

\* A faulty variant of Sequence: the idle cycles of a write are pushed onto
\* the io sequence only.
Sequence_IdleIoOnly(f) ==
    LET t == build_swd_transfer(f.port, IF f.op = "write" THEN "write" ELSE "read",
                                f.value, f.addr)
    IN  CASE f.op = "read" -> t
          [] f.op = "write" ->
                [io |-> t.io \o Repeat(FALSE, WriteIdleCycles), dir |-> t.dir]
          [] OTHER ->
                [io |-> Repeat(TRUE, LineResetBits) \o t.io,
                 dir |-> Repeat(TRUE, LineResetBits) \o t.dir]

\* A faulty variant of Sequence: the line reset has one high bit less.
Sequence_ShortReset(f) ==
    LET t == build_swd_transfer(f.port, IF f.op = "write" THEN "write" ELSE "read",
                                f.value, f.addr)
    IN  CASE f.op = "read" -> t
          [] f.op = "write" ->
                [io |-> t.io \o Repeat(FALSE, WriteIdleCycles),
                 dir |-> t.dir \o Repeat(TRUE, WriteIdleCycles)]
          [] OTHER ->
                [io |-> Repeat(TRUE, LineResetBits - 1) \o t.io,
                 dir |-> Repeat(TRUE, LineResetBits - 1) \o t.dir]

\* The io / direction sequences a frame hands to swd_io.
Sequence(f) ==
    LET t == build_swd_transfer(f.port, IF f.op = "write" THEN "write" ELSE "read",
                                f.value, f.addr)
    IN  CASE f.op = "read" -> t
          [] f.op = "write" ->
                [io |-> t.io \o Repeat(FALSE, WriteIdleCycles),
                 dir |-> t.dir \o Repeat(TRUE, WriteIdleCycles)]
          [] OTHER ->
                [io |-> Repeat(TRUE, LineResetBits) \o t.io,
                 dir |-> Repeat(TRUE, LineResetBits) \o t.dir]

\* Number of bits in front of the acknowledgement in a frame's sequence.
AckOffset(f) == IF f.op = "line_reset" THEN LineResetBits + 2 + 8 ELSE 2 + 8

\* Length of the sequence a frame hands to swd_io (of Sequence(f).io).
SequenceLen(f) ==
    CASE f.op = "read" -> 2 + 8 + 3 + 32 + 1 + 1
      [] f.op = "write" -> 2 + 8 + 3 + 2 + 32 + 1 + WriteIdleCycles
      [] OTHER -> LineResetBits + 2 + 8 + 3 + 32 + 1 + 1

\* bit k (0 = least significant) of the word v; the words of this model are
\* below 2^31, so bit 31 is clear
BitAt(v, k) == IF k >= 31 THEN FALSE ELSE (v \div (2 ^ k)) % 2 = 1

\* Bit i (from 1) of what swd_io samples for a frame's sequence, when the
\* target answers `answer`: where the line is released the acknowledgement
\* answer.ack, then (for a read) the word answer.d least-significant bit first
\* and the parity bit answer.p; low wherever the host drives the line.
SampledBit(f, answer, i) ==
    LET pre == AckOffset(f)
    IN  IF i <= pre THEN FALSE
        ELSE IF i <= pre + 3 THEN answer.ack[i - pre]
        ELSE IF f.op = "write" THEN FALSE
        ELSE IF i <= pre + 3 + 32 THEN BitAt(answer.d, i - pre - 3 - 1)
        ELSE IF i = pre + 3 + 33 THEN answer.p
        ELSE FALSE

Answer(ack, d, p) == [ack |-> ack, d |-> d, p |-> p]

\* The jaylink BitIter swd_io returns: the sampled bits and a read position.
Sampled(f, ack, d, p) == [f |-> f, answer |-> Answer(ack, d, p), pos |-> 0]

\* BitIter::split_off(n): the next n bits, and the iterator advanced past them
SplitOff(it, n) ==
    LET m == IF it.pos + n <= SequenceLen(it.f) THEN n ELSE SequenceLen(it.f) - it.pos
    IN  [head |-> [i \in 1..m |-> SampledBit(it.f, it.answer, it.pos + i)],
         rest |-> [it EXCEPT !.pos = @ + m]]

\* A faulty variant of DecodeRegister: only one idle bit is thrown away.
DecodeRegister_OneIdleBit(resp) ==
    LET afterIdle == SplitOff(resp, 1).rest
        afterRequest == SplitOff(afterIdle, 8).rest
        a == SplitOff(afterRequest, 3)
    IN  [ack |-> a.head, rest |-> a.rest]

\* read_register / write_register: throw away two idle bits and the request
\* bits, then take the ack.
DecodeRegister(resp) ==
    LET afterIdle == SplitOff(resp, 2).rest
        afterRequest == SplitOff(afterIdle, 8).rest
        a == SplitOff(afterRequest, 3)
    IN  [ack |-> a.head, rest |-> a.rest]

\* swd_line_reset: ignore reset bits, idle bits and request, then take the ack.
DecodeLineReset(resp) ==
    LET afterRequest == SplitOff(resp, LineResetBits + 2 + 8).rest
    IN  SplitOff(afterRequest, 3).head

\* `ack[0] && ack[1] && ack[2]`
IsNack(ack) == ack[1] /\ ack[2] /\ ack[3]
\* `ack[1]`, tested after the NACK test
IsWait(ack) == ~IsNack(ack) /\ ack[2]
\* `ack[2]`, tested after the NACK and WAIT tests
IsFault(ack) == ~IsNack(ack) /\ ~ack[2] /\ ack[3]
\* none of the three tests fired
IsOkPath(ack) == ~IsNack(ack) /\ ~ack[2] /\ ~ack[3]

\* Parity check of a Debug-Port read: the 32 data bits, then the parity bit.
CheckedValue(rest) ==
    LET d == SplitOff(rest, 32)
        value == bits_to_byte(d.head)
        parity == SplitOff(d.rest, 1).head
    IN  IF parity # <<>> /\ ((CountOnes(value) % 2 = 1) = parity[1])
        THEN Ok(value)
        ELSE Err("IncorrectParity")

(***************************************************************************)
(* Calls and returns                                                       *)
(***************************************************************************)
\* The frame on top returns r to its caller, or to the user of the engine.
Return(r) ==
    IF Len(stack) = 1
    THEN /\ stack' = <<>>
         /\ ret' = NoRet
         /\ status' = "done"
         /\ result' = r
    ELSE /\ stack' = SubSeq(stack, 1, Len(stack) - 1)
         /\ ret' = r
         /\ UNCHANGED <<status, result>>

\* The frame on top, now `caller`, calls `callee`.  A call beyond the stack's
\* capacity ends the program.
Call(caller, callee) ==
    IF Len(stack) < MaxDepth
    THEN /\ stack' = Append(SetTop(caller), callee)
         /\ ret' = NoRet
         /\ UNCHANGED <<status, result>>
    ELSE /\ stack' = SetTop(caller)
         /\ status' = "exhausted"
         /\ UNCHANGED <<ret, result>>

\* `continue`: the next iteration of the retry loop
Continue(f) ==
    /\ stack' = SetTop([f EXCEPT !.retry = @ + 1, !.pc = "io", !.ctrl = 0])
    /\ ret' = NoRet
    /\ UNCHANGED <<status, result>>

\* `callee(...)?` followed by `continue`
ContinueOrPropagate(f) ==
    IF ret.ok THEN Continue(f) ELSE Return(ret)

AbortWrite(o, e) == Frame("write", "DebugPort", AbortAddress, AbortValue(o, e))

IsRegister(f) == f.op \in {"read", "write"}
Transmitting(f) == f.pc = "io" /\ f.retry < MaxRetries
AtTopLevel == Len(stack) = 1

(***************************************************************************)
(* Observations of the top-level call (history; the engine never reads it) *)
(***************************************************************************)
\*   req          the request of the call
\*   sent         swd_io calls made for the request itself
\*   allWait      every one of them was answered, and answered exactly WAIT
\*                (the answer that ended the call through the OK path aside)
\*   okAck        the acknowledgement that was taken as success (<<>>: none)
\*   aborts       ABORT writes the call itself issued
\*   otherAbort   one of them had a value other than ORUNERRCLR alone
\*   nestedAbort  a recovery transaction of the call issued an ABORT write of its own
\*   abortErr     the error of an ABORT write of the call that failed ("-": none)
\*   ctrlRead     CTRL/STAT as read after the latest answer (-1: not read)
\*   nack         "pending": a no-acknowledge was seen and no line reset
\*                transmitted since; "reset": a line reset followed it
\*   apData       the word sampled in the Access-Port request's own response
\*   rdbuffCalls  RDBUFF reads the call issued
\*   rdbuffData   the word the target delivered to the RDBUFF read
\*   dpData, dpParity   word and parity bit the target delivered to a
\*                Debug-Port read taken as success
\*   transportFailed   swd_io failed during the call
\*   resetAcks    acknowledgements of the transmissions of the line reset the
\*                call is in or has just returned from
InitObs(req) ==
    [req |-> req, sent |-> 0, allWait |-> TRUE, okAck |-> <<>>,
     aborts |-> 0, otherAbort |-> FALSE, nestedAbort |-> FALSE, abortErr |-> "-",
     ctrlRead |-> -1, nack |-> "none",
     apData |-> -1, rdbuffCalls |-> 0, rdbuffData |-> -1,
     dpData |-> -1, dpParity |-> FALSE, transportFailed |-> FALSE,
     resetAcks |-> <<>>]

NoRequest == Request("none", "none", 0, 0)

\* The top-level request was transmitted and answered with ack.
ObsIo(ack) ==
    IF AtTopLevel
    THEN [obs EXCEPT !.sent = @ + 1,
                     !.allWait = IF IsOkPath(ack) THEN @ ELSE @ /\ ack = AckWait,
                     !.okAck = IF IsOkPath(ack) THEN ack ELSE @,
                     !.ctrlRead = -1,
                     !.nack = IF IsNack(ack) THEN "pending" ELSE @]
    ELSE obs

\* An ABORT write of the given value is issued.
ObsAbort(o, value) ==
    IF AtTopLevel
    THEN [o EXCEPT !.aborts = @ + 1, !.otherAbort = @ \/ value # 16]
    ELSE [o EXCEPT !.nestedAbort = TRUE]

(***************************************************************************)
(* The engine's steps                                                      *)
(***************************************************************************)
\* A user of the engine calls read_register (op "read") or write_register.
CallRegister(req) ==
    /\ status \in {"idle", "done"}
    /\ UNCHANGED <<svars, cvars, jvars, wvars, dvars>>
    /\ stack' = <<Frame(req.op, req.port, req.addr, req.value)>>
    /\ ret' = NoRet
    /\ status' = "running"
    /\ result' = NoRet
    /\ obs' = InitObs(req)

\* A faulty variant of SwdIoError: the failing transmission is tried again.
SwdIoError_Retried ==
    /\ status = "running"
    /\ UNCHANGED <<svars, cvars, jvars, wvars, dvars>>
    /\ Top.pc = "io"
    /\ Top.retry < (IF IsRegister(Top) THEN MaxRetries ELSE LineResetTries)
    /\ obs' = IF AtTopLevel
              THEN [obs EXCEPT !.sent = @ + 1, !.allWait = FALSE, !.transportFailed = TRUE]
              ELSE [obs EXCEPT !.transportFailed = TRUE]
    /\ stack' = SetTop([Top EXCEPT !.retry = @ + 1])
    /\ UNCHANGED <<ret, status, result>>

\* `self.handle.swd_io(...)?` fails in the transport.
SwdIoError ==
    /\ status = "running"
    /\ UNCHANGED <<svars, cvars, jvars, wvars, dvars>>
    /\ Top.pc = "io"
    /\ Top.retry < (IF IsRegister(Top) THEN MaxRetries ELSE LineResetTries)
    /\ obs' = IF AtTopLevel
              THEN [obs EXCEPT !.sent = @ + 1, !.allWait = FALSE, !.transportFailed = TRUE]
              ELSE [obs EXCEPT !.transportFailed = TRUE]
    /\ Return(Err("ProbeSpecific"))

\* A faulty variant of RegNack: `continue` without the line reset.
RegNack_NoReset(ack) ==
    /\ status = "running"
    /\ UNCHANGED <<svars, cvars, jvars, wvars, dvars>>
    /\ IsRegister(Top) /\ Transmitting(Top)
    /\ LET r == DecodeRegister(Sampled(Top, ack, 0, FALSE))
       IN  /\ IsNack(r.ack)
           /\ obs' = ObsIo(r.ack)
           /\ Continue(Top)

\* No acknowledgement: `self.swd_line_reset()?`
RegNack(ack) ==
    /\ status = "running"
    /\ UNCHANGED <<svars, cvars, jvars, wvars, dvars>>
    /\ IsRegister(Top) /\ Transmitting(Top)
    /\ LET r == DecodeRegister(Sampled(Top, ack, 0, FALSE))
       IN  /\ IsNack(r.ack)
           /\ obs' = ObsIo(r.ack)
           /\ Call([Top EXCEPT !.pc = "reset"], LineResetFrame)

\* swd_line_reset returned: `?`, then `continue`
AfterLineReset ==
    /\ status = "running"
    /\ UNCHANGED <<svars, cvars, jvars, wvars, dvars>>
    /\ Top.pc = "reset" /\ ret # NoRet
    /\ obs' = [obs EXCEPT !.resetAcks = <<>>]
    /\ ContinueOrPropagate(Top)

\* A faulty variant of WaitAbort: the sticky-error flag is cleared as well.
WaitAbort_BothFlags == AbortWrite(TRUE, TRUE)

\* The ABORT value written after a WAIT: Abort(0) with set_orunerrclr(true)
WaitAbort == AbortWrite(TRUE, FALSE)

\* WAIT: clear the overrun flag with an ABORT write.
RegWait(ack) ==
    /\ status = "running"
    /\ UNCHANGED <<svars, cvars, jvars, wvars, dvars>>
    /\ IsRegister(Top) /\ Transmitting(Top)
    /\ LET r == DecodeRegister(Sampled(Top, ack, 0, FALSE))
       IN  /\ IsWait(r.ack)
           /\ obs' = ObsAbort(ObsIo(r.ack), WaitAbort.value)
           /\ Call([Top EXCEPT !.pc = "wabort"], WaitAbort)

\* The ABORT write returned: `?`, then `continue`
AfterAbort ==
    /\ status = "running"
    /\ UNCHANGED <<svars, cvars, jvars, wvars, dvars>>
    /\ Top.pc \in {"wabort", "fabort"} /\ ret # NoRet
    /\ obs' = IF AtTopLevel /\ ~ret.ok THEN [obs EXCEPT !.abortErr = ret.err] ELSE obs
    /\ ContinueOrPropagate(Top)

\* FAULT: read CTRL/STAT.
RegFault(ack) ==
    /\ status = "running"
    /\ UNCHANGED <<svars, cvars, jvars, wvars, dvars>>
    /\ IsRegister(Top) /\ Transmitting(Top)
    /\ LET r == DecodeRegister(Sampled(Top, ack, 0, FALSE))
       IN  /\ IsFault(r.ack)
           /\ obs' = ObsIo(r.ack)
           /\ Call([Top EXCEPT !.pc = "ctrl"], Frame("read", "DebugPort", CtrlAddress, 0))

\* A faulty variant of FaultAbort: the two flags are swapped.
FaultAbort_Swapped(ctrl) == AbortWrite(sticky_err(ctrl), sticky_orun(ctrl))

\* A faulty variant of Recoverable: the overrun test is inverted.
Recoverable_Inverted(ctrl) == ~sticky_orun(ctrl) \/ sticky_err(ctrl)

\* The ABORT value written after a FAULT:
\* set_orunerrclr(ctrl.sticky_orun()); set_stkerrclr(ctrl.sticky_err())
FaultAbort(ctrl) == AbortWrite(sticky_orun(ctrl), sticky_err(ctrl))

\* `if ctrl.sticky_orun() || ctrl.sticky_err()`
Recoverable(ctrl) == sticky_orun(ctrl) \/ sticky_err(ctrl)

\* The CTRL/STAT read returned: `?`, then clear the sticky flags it shows, or
\* report the fault.
AfterCtrl ==
    /\ status = "running"
    /\ UNCHANGED <<svars, cvars, jvars, wvars, dvars>>
    /\ Top.pc = "ctrl" /\ ret # NoRet
    /\ IF ~ret.ok
       THEN /\ obs' = obs
            /\ Return(ret)
       ELSE LET ctrl == ret.val
                seen == IF AtTopLevel THEN [obs EXCEPT !.ctrlRead = ctrl] ELSE obs
            IN  IF Recoverable(ctrl)
                THEN /\ obs' = ObsAbort(seen, FaultAbort(ctrl).value)
                     /\ Call([Top EXCEPT !.pc = "fabort", !.ctrl = ctrl], FaultAbort(ctrl))
                ELSE /\ obs' = seen
                     /\ Return(Err("FaultResponse"))

\* A faulty variant of ReadOkAP: the word of the request's own response is
\* returned.
ReadOkAP_OwnData(ack, d) ==
    /\ status = "running"
    /\ UNCHANGED <<svars, cvars, jvars, wvars, dvars>>
    /\ Top.op = "read" /\ Top.port = "AccessPort" /\ Transmitting(Top)
    /\ LET r == DecodeRegister(Sampled(Top, ack, d, FALSE))
       IN  /\ IsOkPath(r.ack)
           /\ obs' = IF AtTopLevel THEN [ObsIo(r.ack) EXCEPT !.apData = d] ELSE obs
           /\ Return(Ok(d))

\* An Access-Port read was acknowledged: the value comes from a RDBUFF read.
ReadOkAP(ack, d) ==
    /\ status = "running"
    /\ UNCHANGED <<svars, cvars, jvars, wvars, dvars>>
    /\ Top.op = "read" /\ Top.port = "AccessPort" /\ Transmitting(Top)
    /\ LET r == DecodeRegister(Sampled(Top, ack, d, FALSE))
       IN  /\ IsOkPath(r.ack)
           /\ obs' = IF AtTopLevel
                     THEN [ObsIo(r.ack) EXCEPT !.apData = d, !.rdbuffCalls = @ + 1]
                     ELSE obs
           /\ Call([Top EXCEPT !.pc = "rdbuff"], Frame("read", "DebugPort", RdBuffAddress, 0))

\* `return DAPAccess::read_register(self, DebugPort, RdBuff::ADDRESS)`
AfterRdbuff ==
    /\ status = "running"
    /\ UNCHANGED <<svars, cvars, jvars, wvars, dvars>>
    /\ Top.pc = "rdbuff" /\ ret # NoRet
    /\ obs' = obs
    /\ Return(ret)

\* A Debug-Port read was acknowledged: check the parity, return the value.
ReadOkDP(ack, d, p) ==
    /\ status = "running"
    /\ UNCHANGED <<svars, cvars, jvars, wvars, dvars>>
    /\ Top.op = "read" /\ Top.port = "DebugPort" /\ Transmitting(Top)
    /\ LET r == DecodeRegister(Sampled(Top, ack, d, p))
       IN  /\ IsOkPath(r.ack)
           /\ obs' = IF AtTopLevel
                     THEN [ObsIo(r.ack) EXCEPT !.dpData = d, !.dpParity = p]
                     ELSE IF Len(stack) = 2 /\ stack[1].pc = "rdbuff"
                          THEN [obs EXCEPT !.rdbuffData = d]
                          ELSE obs
           /\ Return(CheckedValue(r.rest))

\* A write was acknowledged.
WriteOk(ack) ==
    /\ status = "running"
    /\ UNCHANGED <<svars, cvars, jvars, wvars, dvars>>
    /\ Top.op = "write" /\ Transmitting(Top)
    /\ LET r == DecodeRegister(Sampled(Top, ack, 0, FALSE))
       IN  /\ IsOkPath(r.ack)
           /\ obs' = ObsIo(r.ack)
           /\ Return(Ok(0))

\* The retry loop ran out: `Err(DebugProbeError::Timeout)`
RetryExhausted ==
    /\ status = "running"
    /\ UNCHANGED <<svars, cvars, jvars, wvars, dvars>>
    /\ IsRegister(Top) /\ Top.pc = "io" /\ Top.retry >= MaxRetries
    /\ obs' = obs
    /\ Return(Err("Timeout"))

\* A faulty variant of LineResetError: WAIT and FAULT are taken for each other.
LineResetError_Swapped(a) ==
    CASE a = AckWait -> Err("FaultResponse")
      [] a = AckFault -> Err("WaitResponse")
      [] OTHER -> Err("NoAcknowledge")

\* swd_line_reset's `match &ack[..]` for an acknowledgement other than OK
LineResetError(a) ==
    CASE a = AckWait -> Err("WaitResponse")
      [] a = AckFault -> Err("FaultResponse")
      [] OTHER -> Err("NoAcknowledge")

\* One transmission of swd_line_reset's reset-plus-DPIDR-read sequence.
LineResetIo(ack) ==
    /\ status = "running"
    /\ UNCHANGED <<svars, cvars, jvars, wvars, dvars>>
    /\ Top.op = "line_reset" /\ Top.pc = "io" /\ Top.retry < LineResetTries
    /\ LET a == DecodeLineReset(Sampled(Top, ack, 0, FALSE))
       IN  /\ obs' = IF Len(stack) = 2
                     THEN [obs EXCEPT !.nack = "reset", !.resetAcks = Append(@, a)]
                     ELSE obs
           /\ IF a = AckOk
              THEN Return(Ok(0))
              ELSE /\ stack' = SetTop([Top EXCEPT !.retry = @ + 1,
                                                  !.result = LineResetError(a)])
                   /\ UNCHANGED <<ret, status, result>>

\* swd_line_reset's loop is over: return `result`.
LineResetDone ==
    /\ status = "running"
    /\ UNCHANGED <<svars, cvars, jvars, wvars, dvars>>
    /\ Top.op = "line_reset" /\ Top.pc = "io" /\ Top.retry >= LineResetTries
    /\ obs' = obs
    /\ Return(Top.result)

(***************************************************************************)
(* Session                                                                 *)
(***************************************************************************)
\* Calls of Session::core a user makes on one session.
MaxCoreCalls == 3

\* `cores: vec![core]`: Session::new builds a session of one core
NumCores == 1

Architectures == {"Arm", "Riscv"}

\* enum CoreType
CoreTypes == {"M0", "M3", "M4", "M33", "M7", "Riscv"}

\* CoreType::architecture
architecture(core_type) ==
    CASE core_type = "M0" -> "Arm"
      [] core_type = "M3" -> "Arm"
      [] core_type = "M33" -> "Arm"
      [] core_type = "M4" -> "Arm"
      [] core_type = "M7" -> "Arm"
      [] core_type = "Riscv" -> "Riscv"

\* A faulty variant of TargetNew: the debug sequence does not follow the
\* architecture of the core type.
TargetNew_RiscvSequence(core_type) ==
    [core_type |-> core_type, debug_sequence |-> "Riscv"]

\* Target::new: the debug sequence is chosen from the architecture of the
\* core type (the fields the session never reads are left out).
TargetNew(core_type) ==
    [core_type |-> core_type,
     debug_sequence |-> CASE architecture(core_type) = "Arm" -> "Arm"
                          [] architecture(core_type) = "Riscv" -> "Riscv"]

\* Target::architecture
target_architecture(target) == architecture(target.core_type)

\* No target: the value of `session.target` before Session::new.
NoTarget == [core_type |-> "-", debug_sequence |-> "-"]
AttachMethods == {"Normal", "UnderReset"}

\* The core indices a user asks for.
CoreIndices == 0..1

\* The debug sequence steps Session::new invokes: the ArmDebugSequence hooks
\* debug_port_setup and debug_core_start, and reset_catch_set / reset_catch_clear.
Hooks == {"debug_port_setup", "debug_core_start", "reset_catch_set", "reset_catch_clear"}

\* The attach handshakes of the two architectures.
Handshakes == {"init_arm", "init_riscv"}

\* The number of entries of the log `events` that are in the set `names`.
RECURSIVE Count(_, _)
Count(events, names) ==
    IF events = <<>> THEN 0
    ELSE (IF Head(events) \in names THEN 1 ELSE 0) + Count(Tail(events), names)

\* Core::create_state(0): the state of a core nothing has attached to yet
create_state == [attached |-> FALSE]

\* The state Session::new starts from.  Under attach-under-reset the probe
\* holds the reset line asserted when Session::new is entered.
NewSession(arch, attach_method) ==
    [arch |-> arch, target |-> NoTarget, attach_method |-> attach_method, built |-> FALSE,
     cores |-> <<>>, events |-> <<>>,
     reset_line |-> IF attach_method = "UnderReset" THEN "asserted" ELSE "deasserted",
     warned |-> FALSE]

NoSession == NewSession("-", "-")

Log(s, name) == [s EXCEPT !.events = Append(@, name)]

\* SpecificCoreState::attach_arm: the first call for a core state runs the
\* handshake and marks the state attached; a call on an attached state only
\* builds the handle.  `fault` = "init" makes the handshake fail.
attach_arm(core_state, fault) ==
    IF core_state.attached
    THEN [res |-> Ok(0), core_state |-> core_state, events |-> <<>>]
    ELSE IF fault = "init"
    THEN [res |-> Err("attach_arm"), core_state |-> core_state, events |-> <<"init_arm">>]
    ELSE [res |-> Ok(0), core_state |-> [attached |-> TRUE], events |-> <<"init_arm">>]

\* SpecificCoreState::attach_riscv, likewise
attach_riscv(core_state, fault) ==
    IF core_state.attached
    THEN [res |-> Ok(0), core_state |-> core_state, events |-> <<>>]
    ELSE IF fault = "init"
    THEN [res |-> Err("attach_riscv"), core_state |-> core_state, events |-> <<"init_riscv">>]
    ELSE [res |-> Ok(0), core_state |-> [attached |-> TRUE], events |-> <<"init_riscv">>]

\* A faulty variant of attach: the core state the session keeps is not handed
\* on, every call attaches to a fresh one.
attach_Fresh(arch, core_state, fault) ==
    IF arch = "Arm"
    THEN IF fault = "bind"
         THEN [res |-> Err("core_memory_interface"), core_state |-> core_state, events |-> <<>>]
         ELSE attach_arm(create_state, fault)
    ELSE attach_riscv(create_state, fault)

\* ArchitectureInterface::attach.  `fault` = "bind" makes
\* `state.memory_interface(0.into())?` fail.
attach(arch, core_state, fault) ==
    IF arch = "Arm"
    THEN IF fault = "bind"
         THEN [res |-> Err("core_memory_interface"), core_state |-> core_state, events |-> <<>>]
         ELSE attach_arm(core_state, fault)
    ELSE attach_riscv(core_state, fault)

\* Error::CoreNotFound(n)
CoreNotFound(n) == [Err("CoreNotFound") EXCEPT !.val = n]

\* Session::list_cores: the number and the type of every core
list_cores(s) == [i \in 1..Len(s.cores) |-> <<i - 1, s.target.core_type>>]

\* A faulty variant of core: an index out of range is taken for the last core.
core_LastCore(s, n, fault) ==
    LET k == IF n >= Len(s.cores) THEN Len(s.cores) - 1 ELSE n
        a == attach(s.arch, s.cores[k + 1], fault)
    IN  [res |-> a.res,
         s |-> [s EXCEPT !.cores[k + 1] = a.core_state, !.events = @ \o a.events]]

\* Session::core(n) on the session value s
core(s, n, fault) ==
    IF n >= Len(s.cores)
    THEN [res |-> CoreNotFound(n), s |-> s]
    ELSE LET a == attach(s.arch, s.cores[n + 1], fault)
         IN  [res |-> a.res,
              s |-> [s EXCEPT !.cores[n + 1] = a.core_state, !.events = @ \o a.events]]

\* A faulty variant of ArmSteps: the reset line is released before the reset
\* catch is set.
ArmSteps_DeassertFirst(attach_method) ==
    <<"get_target_from_selector", "try_into_arm_interface", "debug_port_setup",
      "initialize", "memory_interface", "debug_core_start", "Session">>
    \o (IF attach_method = "UnderReset"
        THEN <<"target_reset_deassert", "core", "reset_catch_set",
               "core", "wait_for_core_halted", "reset_catch_clear">>
        ELSE <<>>)
    \o <<"core", "clear_all_hw_breakpoints">>

\* A faulty variant of ArmSteps: debug_core_start is run before the interface
\* is initialized.
ArmSteps_CoreStartEarly(attach_method) ==
    <<"get_target_from_selector", "try_into_arm_interface", "debug_port_setup",
      "debug_core_start", "initialize", "memory_interface", "Session">>
    \o (IF attach_method = "UnderReset"
        THEN <<"core", "reset_catch_set", "target_reset_deassert",
               "core", "wait_for_core_halted", "reset_catch_clear">>
        ELSE <<>>)
    \o <<"core", "clear_all_hw_breakpoints">>

\* Session::new for an ARM target: its steps in program order.  "Session" is
\* the construction of the Session value, "core" a call of session.core(0);
\* clear_all_hw_breakpoints visits the one core of the session.
ArmSteps(attach_method) ==
    <<"get_target_from_selector", "try_into_arm_interface", "debug_port_setup",
      "initialize", "memory_interface", "debug_core_start", "Session">>
    \o (IF attach_method = "UnderReset"
        THEN <<"core", "reset_catch_set", "target_reset_deassert",
               "core", "wait_for_core_halted", "reset_catch_clear">>
        ELSE <<>>)
    \o <<"core", "clear_all_hw_breakpoints">>

\* A faulty variant of RiscvSteps: the core is not halted.
RiscvSteps_NoHalt ==
    <<"get_target_from_selector", "try_into_riscv_interface", "Session",
      "core", "core", "clear_all_hw_breakpoints">>

\* Session::new for a RISC-V target
RiscvSteps ==
    <<"get_target_from_selector", "try_into_riscv_interface", "Session",
      "core", "halt", "core", "clear_all_hw_breakpoints">>

\* Drop for Session: visit the one core and clear the breakpoints set.
DropSteps == <<"core", "clear_all_set_hw_breakpoints">>

\* One step on the session value s; `failing` makes the step return Err
\* (a step that cannot fail ignores it).
Step(s, name, failing) ==
    CASE name = "core" ->
            core(s, 0, IF ~failing THEN "none"
                       ELSE IF s.cores[1].attached THEN "bind" ELSE "init")
      [] name = "Session" ->
            [res |-> Ok(0),
             s |-> [s EXCEPT !.built = TRUE, !.cores = [n \in 1..NumCores |-> create_state]]]
      [] name \in {"debug_port_setup", "debug_core_start"} ->
            \* `match target.debug_sequence.borrow()`: the Riscv arm panics
            IF s.target.debug_sequence # "Arm"
            THEN [res |-> Panic, s |-> s]
            ELSE [res |-> IF failing THEN Err(name) ELSE Ok(0), s |-> Log(s, name)]
      [] name = "target_reset_deassert" ->
            IF failing
            THEN [res |-> Err(name), s |-> Log(s, name)]
            ELSE [res |-> Ok(0), s |-> [Log(s, name) EXCEPT !.reset_line = "deasserted"]]
      [] OTHER ->
            [res |-> IF failing THEN Err(name) ELSE Ok(0), s |-> Log(s, name)]

\* A faulty variant of Run: the steps after a failing one are run all the same.
RECURSIVE Run_NoPropagate(_, _, _, _)
Run_NoPropagate(steps, i, s, failAt) ==
    IF i > Len(steps) THEN [res |-> Ok(0), s |-> s]
    ELSE LET r == Step(s, steps[i], i = failAt)
             rest == Run_NoPropagate(steps, i + 1, r.s, failAt)
         IN  IF r.res.ok THEN rest ELSE [res |-> r.res, s |-> rest.s]

\* The steps from the i-th on, each followed by `?`: the first Err ends the run.
RECURSIVE Run(_, _, _, _)
Run(steps, i, s, failAt) ==
    IF i > Len(steps) THEN [res |-> Ok(0), s |-> s]
    ELSE LET r == Step(s, steps[i], i = failAt)
         IN  IF r.res.ok THEN Run(steps, i + 1, r.s, failAt) ELSE r

\* Drop for Session: an error is logged, never returned.
drop(s, failAt) ==
    LET r == Run(DropSteps, 1, s, failAt)
    IN  [r.s EXCEPT !.warned = ~r.res.ok]

StepsOf(arch, attach_method) ==
    IF arch = "Arm" THEN ArmSteps(attach_method) ELSE RiscvSteps

\* A faulty variant of SessionNew: a failing clear_all_hw_breakpoints does not
\* keep the session from being returned.
SessionNew_BestEffort(core_type, attach_method, failAt, dropFailAt) ==
    /\ UNCHANGED <<evars, cvars, jvars, wvars, dvars>>
    /\ life = "none"
    /\ LET target == TargetNew(core_type)
           arch == target_architecture(target)
           r == Run(StepsOf(arch, attach_method), 1,
                    [NewSession(arch, attach_method) EXCEPT !.target = target], failAt)
       IN  /\ failAt <= Len(StepsOf(arch, attach_method))
           /\ outcome' = r.res
           /\ IF r.res.ok \/ r.res.err = "clear_all_hw_breakpoints"
              THEN /\ life' = "live"
                   /\ session' = r.s
              ELSE /\ life' = "failed"
                   /\ session' = IF r.s.built THEN drop(r.s, dropFailAt) ELSE r.s
    /\ UNCHANGED <<handle, calls>>

\* Session::new on a target that Target::new built for `core_type`; the branch
\* is chosen by target.architecture().  failAt names the step that fails
\* (0: none); a Session value already built is dropped when a later step fails.
SessionNew(core_type, attach_method, failAt, dropFailAt) ==
    /\ UNCHANGED <<evars, cvars, jvars, wvars, dvars>>
    /\ life = "none"
    /\ LET target == TargetNew(core_type)
           arch == target_architecture(target)
           r == Run(StepsOf(arch, attach_method), 1,
                    [NewSession(arch, attach_method) EXCEPT !.target = target], failAt)
       IN  /\ failAt <= Len(StepsOf(arch, attach_method))
           /\ outcome' = r.res
           /\ IF r.res.ok
              THEN /\ life' = "live"
                   /\ session' = r.s
              ELSE /\ life' = "failed"
                   /\ session' = IF r.s.built THEN drop(r.s, dropFailAt) ELSE r.s
    /\ UNCHANGED <<handle, calls>>

\* A faulty variant of SessionCore: core() can be called while a Core handle
\* of the session is alive (as if it borrowed the session shared).
SessionCore_Shared(n, fault) ==
    /\ UNCHANGED <<evars, cvars, jvars, wvars, dvars>>
    /\ life = "live"
    /\ Len(calls) < MaxCoreCalls
    /\ LET r == core(session, n, fault)
       IN  /\ session' = r.s
           /\ outcome' = r.res
           /\ handle' = IF r.res.ok THEN <<n>> ELSE <<>>
    /\ calls' = Append(calls, n)
    /\ UNCHANGED life

\* A user calls session.core(n); no Core handle of the session is alive.
SessionCore(n, fault) ==
    /\ UNCHANGED <<evars, cvars, jvars, wvars, dvars>>
    /\ life = "live"
    /\ handle = <<>>
    /\ Len(calls) < MaxCoreCalls
    /\ LET r == core(session, n, fault)
       IN  /\ session' = r.s
           /\ outcome' = r.res
           /\ handle' = IF r.res.ok THEN <<n>> ELSE <<>>
    /\ calls' = Append(calls, n)
    /\ UNCHANGED life

\* The user lets go of the Core handle.
ReleaseCore ==
    /\ UNCHANGED <<evars, cvars, jvars, wvars, dvars>>
    /\ handle # <<>>
    /\ handle' = <<>>
    /\ UNCHANGED <<session, life, outcome, calls>>

\* The session goes out of scope.
SessionDrop(failAt) ==
    /\ UNCHANGED <<evars, cvars, jvars, wvars, dvars>>
    /\ life = "live"
    /\ handle = <<>>
    /\ session' = drop(session, failAt)
    /\ life' = "dropped"
    /\ UNCHANGED <<outcome, handle, calls>>

(***************************************************************************)
(* The bit sequences of a register call                                    *)
(***************************************************************************)
\* `address: u16` arguments: every combination of the bits 0..3, and values
\* with higher bits set
Addresses == (0..15) \cup {16, 28, 255, 65532, 65535}

\* `value: u32` arguments, below 2^31 (see DataValues): no bit, one bit, an odd
\* and an even number of bits, alternating bits, bit 30 alone, bits 0..30
Values == {0, 1, 2, 3, 34, 305419896, 1431655765, 1073741824, 2147483647}

Ports == {"DebugPort", "AccessPort"}

\* read_register up to its first swd_io: the sequences of build_swd_transfer
ReadSequence(port, address) ==
    /\ call' = Request("read", port, address, 0)
    /\ swd_io_sequence' = Sequence(call').io
    /\ direction' = Sequence(call').dir
    /\ UNCHANGED <<evars, svars, jvars, wvars, dvars>>

\* write_register up to its first swd_io: the sequences of
\* build_swd_transfer, and 8 idle cycles pushed onto both
WriteSequence(port, address, value) ==
    /\ call' = Request("write", port, address, value)
    /\ swd_io_sequence' = Sequence(call').io
    /\ direction' = Sequence(call').dir
    /\ UNCHANGED <<evars, svars, jvars, wvars, dvars>>

\* swd_line_reset up to its first swd_io: 50 driven high bits, extended by
\* the sequences of a read of DP register 0
LineResetSequence ==
    /\ call' = Request("line_reset", "DebugPort", DpidrAddress, 0)
    /\ swd_io_sequence' = Sequence(call').io
    /\ direction' = Sequence(call').dir
    /\ UNCHANGED <<evars, svars, jvars, wvars, dvars>>

\* The reset bits attach sends in front of the JTAG to SWD sequence.
AttachResetBits == 64

jtag_to_swd_sequence ==
    <<FALSE, TRUE, TRUE, TRUE, TRUE, FALSE, FALSE, TRUE, TRUE, TRUE, TRUE, FALSE,
      FALSE, TRUE, TRUE, TRUE>>

\* attach, SWD branch, up to its swd_io: 64 high bits and the JTAG to SWD
\* sequence, all driven.  swd_line_reset follows (LineResetSequence).
AttachSequence ==
    /\ call' = Request("attach", "none", 0, 0)
    /\ swd_io_sequence' = Repeat(TRUE, AttachResetBits) \o jtag_to_swd_sequence
    /\ direction' = Repeat(TRUE, AttachResetBits) \o Repeat(TRUE, 16)
    /\ UNCHANGED <<evars, svars, jvars, wvars, dvars>>

(***************************************************************************)
(* The JLink value and its JTAG shift functions                            *)
(***************************************************************************)
\* The JLink new_from_selector returns, for a probe that has the SELECT_IF
\* capability or not and reports the given available interfaces.
NewJLink(select_if, interfaces) ==
    [open |-> TRUE, select_if |-> select_if, interfaces |-> interfaces,
     supported_protocols |-> IF select_if THEN interfaces ELSE {"Jtag"},
     jtag_idle_cycles |-> 0, protocol |-> "None", current_ir_reg |-> 1, speed_khz |-> 0]

\* No JLink has been opened.
NoProbe ==
    [open |-> FALSE, select_if |-> FALSE, interfaces |-> {},
     supported_protocols |-> {},
     jtag_idle_cycles |-> 0, protocol |-> "None", current_ir_reg |-> 1, speed_khz |-> 0]

\* One jtag_io call.
JtagIo(tms, tdi) == [tms |-> tms, tdi |-> tdi]

\* What a function of the JLink leaves: the JLink, the jtag_io calls it made
\* and its result.
Outcome(p, ios, r) == [probe |-> p, ios |-> ios, result |-> r]

\* The bytes data[i..n], each pushed least significant bit first.
RECURSIVE ByteBits(_, _, _)
ByteBits(data, i, n) ==
    IF i > n THEN <<>> ELSE ShiftOutBits(data[i], 8) \o ByteBits(data, i + 1, n)

\* The TDI data bits of write_ir / write_dr: num_bytes whole bytes, then
\* num_bits bits of the next byte.
TdiData(data, len) ==
    LET num_bytes == len \div 8
        num_bits == len - (num_bytes * 8)
    IN  ByteBits(data, 1, num_bytes)
          \o (IF num_bits > 0 THEN ShiftOutBits(data[num_bytes + 1], num_bits) ELSE <<>>)

\* Number of bytes read_dr / write_dr return for a register of n bits.
ResultBytes(n) == (n \div 8) + (IF n % 8 > 0 THEN 1 ELSE 0)

\* A faulty variant of write_ir: the value written is not recorded.
write_ir_NotRecorded(p, data, len, ioOk) ==
    IF Len(data) * 8 < len \/ len < 1
    THEN Outcome(p, <<>>, Panic)
    ELSE LET tms == <<TRUE, TRUE, FALSE, FALSE>> \o Repeat(FALSE, len - 1)
                       \o <<TRUE, TRUE, FALSE>>
             tdi == <<FALSE, FALSE, FALSE, FALSE>> \o TdiData(data, len)
                       \o <<FALSE, FALSE>>
             ios == <<JtagIo(tms, tdi)>>
         IN  IF ~ioOk THEN Outcome(p, ios, Err("ProbeSpecific"))
             ELSE IF len >= 8 THEN Outcome(p, ios, Err("NotImplemented"))
             ELSE Outcome(p, ios, Ok(0))

\* write_ir(data, len); ioOk: the jtag_io call succeeds.
write_ir(p, data, len, ioOk) ==
    IF Len(data) * 8 < len \/ len < 1
    THEN Outcome(p, <<>>, Panic)
    ELSE LET tms == <<TRUE, TRUE, FALSE, FALSE>> \o Repeat(FALSE, len - 1)
                       \o <<TRUE, TRUE, FALSE>>
             tdi == <<FALSE, FALSE, FALSE, FALSE>> \o TdiData(data, len)
                       \o <<FALSE, FALSE>>
             ios == <<JtagIo(tms, tdi)>>
         IN  IF ~ioOk THEN Outcome(p, ios, Err("ProbeSpecific"))
             ELSE IF len >= 8 THEN Outcome(p, ios, Err("NotImplemented"))
             ELSE Outcome([p EXCEPT !.current_ir_reg = data[1]], ios, Ok(0))

\* A faulty variant of read_dr: the TDI sequence is not extended by the idle
\* cycles.
read_dr_ShortTdi(p, register_bits, ioOk) ==
    IF register_bits < 1
    THEN Outcome(p, <<>>, Panic)
    ELSE LET tms == <<TRUE, FALSE, FALSE>> \o Repeat(FALSE, register_bits - 1)
                       \o <<TRUE, TRUE, FALSE>>
             tdi == Repeat(FALSE, Len(tms))
             ios == <<JtagIo(tms \o Repeat(FALSE, p.jtag_idle_cycles), tdi)>>
         IN  IF ~ioOk THEN Outcome(p, ios, Err("ProbeSpecific"))
             ELSE Outcome(p, ios, Ok(ResultBytes(register_bits)))

\* read_dr(register_bits).  `register_bits - 1` overflows for 0.  The result
\* is given as the number of bytes returned; their contents come from the
\* target.
read_dr(p, register_bits, ioOk) ==
    IF register_bits < 1
    THEN Outcome(p, <<>>, Panic)
    ELSE LET tms == <<TRUE, FALSE, FALSE>> \o Repeat(FALSE, register_bits - 1)
                       \o <<TRUE, TRUE, FALSE>>
             tdi == Repeat(FALSE, Len(tms) + p.jtag_idle_cycles)
             ios == <<JtagIo(tms \o Repeat(FALSE, p.jtag_idle_cycles), tdi)>>
         IN  IF ~ioOk THEN Outcome(p, ios, Err("ProbeSpecific"))
             ELSE Outcome(p, ios, Ok(ResultBytes(register_bits)))

\* write_dr(data, register_bits).  Slicing or indexing data beyond its
\* length panics.
write_dr(p, data, register_bits, ioOk) ==
    IF register_bits < 1 \/ Len(data) * 8 < register_bits
    THEN Outcome(p, <<>>, Panic)
    ELSE LET tms == <<TRUE, FALSE, FALSE>> \o Repeat(FALSE, register_bits - 1)
                       \o <<TRUE, TRUE, FALSE>>
             tdi == <<FALSE, FALSE, FALSE>> \o TdiData(data, register_bits)
                       \o <<FALSE, FALSE>>
             ios == <<JtagIo(tms \o Repeat(FALSE, p.jtag_idle_cycles),
                             tdi \o Repeat(FALSE, p.jtag_idle_cycles))>>
         IN  IF ~ioOk THEN Outcome(p, ios, Err("ProbeSpecific"))
             ELSE Outcome(p, ios, Ok(ResultBytes(register_bits)))

\* An operation on the JLink, as the history keeps it; idle is the idle
\* cycle count it ran with, ir_before the current_ir_reg it found, requested
\* the protocol asked for ("-": the operation has no such argument).
Op(name, address, data, len, o) ==
    [op |-> name, address |-> address, data |-> data, len |-> len, requested |-> "-",
     idle |-> probe.jtag_idle_cycles, ir_before |-> probe.current_ir_reg,
     ios |-> o.ios, result |-> o.result]

NoOp ==
    [op |-> "none", address |-> 0, data |-> <<>>, len |-> 0, requested |-> "-",
     idle |-> 0, ir_before |-> 1, ios |-> <<>>, result |-> Ok(0)]

\* reset: the operation was an attach that reset the JTAG chain.
Summary(o) ==
    [op |-> o.op, address |-> o.address, ok |-> o.result.ok,
     reset |-> (o.op = "attach" /\ o.ios # <<>>)]

\* The operation named `name` ran and left the outcome o.
Ran(name, address, data, len, o) ==
    /\ probe' = o.probe
    /\ jop' = Op(name, address, data, len, o)
    /\ UNCHANGED <<evars, svars, cvars, wvars, dvars>>

\* Register lengths in bits, `data` arguments and idle cycle counts (u8).
Lengths == {0, 1, 5, 7, 8, 9, 32}
DataBytes == {<<>>, <<85>>, <<255, 1>>, <<120, 86, 52, 18>>}
IdleCycles == {0, 1, 7}

\* new_from_selector
JLinkNew(select_if, interfaces) ==
    /\ ~probe.open
    /\ Ran("new", 0, <<>>, 0, Outcome(NewJLink(select_if, interfaces), <<>>, Ok(0)))
    /\ UNCHANGED jprev

\* set_idle_cycles
SetIdleCycles(n) ==
    /\ probe.open
    /\ probe' = [probe EXCEPT !.jtag_idle_cycles = n]
    /\ UNCHANGED <<evars, svars, cvars, wvars, dvars, jop, jprev>>

\* A call of write_ir.
WriteIr(data, len, ioOk) ==
    /\ probe.open
    /\ Ran("write_ir", 0, data, len, write_ir(probe, data, len, ioOk))
    /\ UNCHANGED jprev

\* A call of read_dr.
ReadDr(len, ioOk) ==
    /\ probe.open
    /\ Ran("read_dr", 0, <<>>, len, read_dr(probe, len, ioOk))
    /\ UNCHANGED jprev

\* A call of write_dr.
WriteDr(data, len, ioOk) ==
    /\ probe.open
    /\ Ran("write_dr", 0, data, len, write_dr(probe, data, len, ioOk))
    /\ UNCHANGED jprev

(***************************************************************************)
(* JTAGAccess, select_protocol and attach                                  *)
(***************************************************************************)
\* Outcomes of two calls in a row: r is the outcome of the second on the JLink
\* the first left (a.probe); it does not count if the first failed (`?`).
Then(a, r) ==
    IF ~a.result.ok THEN a
    ELSE Outcome(r.probe, a.ios \o r.ios, r.result)

\* `if self.current_ir_reg != address { self.write_ir(&address_bits[..1], 5)?; }`
\* fail: the number of the jtag_io call that fails (0: none)
SelectRegister(p, address, fail) ==
    IF p.current_ir_reg # address
    THEN write_ir(p, <<address % 256>>, 5, fail # 1)
    ELSE Outcome(p, <<>>, Ok(0))

\* A faulty variant of jtag_read_register: the address is not checked.
jtag_read_register_NoAddressCheck(p, address, len, fail) ==
    LET s == SelectRegister(p, address, fail)
    IN  Then(s, read_dr(s.probe, len, fail # Len(s.ios) + 1))

\* JTAGAccess::read_register(address, len)
jtag_read_register(p, address, len, fail) ==
    IF address > 31
    THEN Outcome(p, <<>>, Err("NotImplemented"))
    ELSE LET s == SelectRegister(p, address, fail)
         IN  Then(s, read_dr(s.probe, len, fail # Len(s.ios) + 1))

\* JTAGAccess::write_register(address, data, len)
jtag_write_register(p, address, data, len, fail) ==
    IF address > 31
    THEN Outcome(p, <<>>, Err("NotImplemented"))
    ELSE LET s == SelectRegister(p, address, fail)
         IN  Then(s, write_dr(s.probe, data, len, fail # Len(s.ios) + 1))

\* select_interface(Some(protocol)); fault: the call on the handle that
\* fails ("none": none).  The value is the protocol selected or the error.
select_interface(p, protocol, fault) ==
    IF fault = "read_capabilities" THEN [ok |-> FALSE, protocol |-> protocol, err |-> "ProbeSpecific"]
    ELSE IF p.select_if
    THEN IF fault = "read_available_interfaces"
         THEN [ok |-> FALSE, protocol |-> protocol, err |-> "ProbeSpecific"]
         ELSE IF protocol \in p.interfaces
         THEN IF fault = "select_interface"
              THEN [ok |-> FALSE, protocol |-> protocol, err |-> "ProbeSpecific"]
              ELSE [ok |-> TRUE, protocol |-> protocol, err |-> "-"]
         ELSE [ok |-> FALSE, protocol |-> protocol, err |-> "UnsupportedProtocol"]
    ELSE IF protocol = "Jtag"
         THEN [ok |-> TRUE, protocol |-> protocol, err |-> "-"]
         ELSE [ok |-> FALSE, protocol |-> protocol, err |-> "UnsupportedProtocol"]

\* A faulty variant of select_protocol: the protocol asked for is recorded
\* before the probe is asked to select it.
select_protocol_RecordsFirst(p, protocol, fault) ==
    LET actual == select_interface(p, protocol, fault)
        q == [p EXCEPT !.protocol = protocol]
    IN  IF ~actual.ok THEN Outcome(q, <<>>, Err(actual.err))
        ELSE Outcome(q, <<>>, Ok(0))

\* DebugProbe::select_protocol(protocol)
select_protocol(p, protocol, fault) ==
    LET actual == select_interface(p, protocol, fault)
    IN  IF ~actual.ok THEN Outcome(p, <<>>, Err(actual.err))
        ELSE IF actual.protocol = protocol
        THEN Outcome([p EXCEPT !.protocol = protocol], <<>>, Ok(0))
        ELSE Outcome([p EXCEPT !.protocol = actual.protocol], <<>>,
                     Err("UnsupportedProtocol"))

\* The TMS / TDI sequences with which attach resets the JTAG chain.
JtagReset == JtagIo(<<TRUE, TRUE, TRUE, TRUE, TRUE, FALSE>>, Repeat(FALSE, 6))

\* DebugProbe::attach; fault: the call that fails ("none": none).  The SWD
\* branch makes no jtag_io call (its sequences: AttachSequence,
\* LineResetSequence).
attach_jlink(p, fault) ==
    LET configured_protocol ==
            IF p.protocol # "None" THEN p.protocol
            ELSE IF "Swd" \in p.supported_protocols THEN "Swd"
            ELSE "Jtag"
        actual == select_interface(p, configured_protocol, fault)
    IN  IF ~actual.ok THEN Outcome(p, <<>>, Err(actual.err))
        ELSE IF fault \in {"attach_read_capabilities", "read_target_voltage"}
        THEN Outcome(p, <<>>, Err("ProbeSpecific"))
        ELSE IF actual.protocol = "Jtag"
        THEN IF fault = "reset_trst" THEN Outcome(p, <<>>, Err("ProbeSpecific"))
             ELSE IF fault = "jtag_io" THEN Outcome(p, <<JtagReset>>, Err("ProbeSpecific"))
             ELSE LET idcode == read_dr(p, 32, fault # "read_dr")
                  IN  Outcome(p, <<JtagReset>> \o idcode.ios,
                              IF idcode.result.ok THEN Ok(0) ELSE idcode.result)
        ELSE IF fault \in {"swd_io", "swd_line_reset"}
             THEN Outcome(p, <<>>, Err("ProbeSpecific"))
             ELSE Outcome(p, <<>>, Ok(0))

AttachFaults ==
    {"none", "read_capabilities", "read_available_interfaces", "select_interface",
     "attach_read_capabilities", "read_target_voltage", "reset_trst", "jtag_io",
     "read_dr", "swd_io", "swd_line_reset"}

SelectFaults ==
    {"none", "read_capabilities", "read_available_interfaces", "select_interface"}

\* `address: u32` arguments of the JTAG register accesses (0x1f is the
\* largest accepted), their `len` and `data`
JtagAddresses == {1, 16, 31, 32}
RegisterLengths == {1, 32}
RegisterData == {<<120, 86, 52, 18>>}

JtagReadRegister(address, len, fail) ==
    /\ probe.open
    /\ Ran("read_register", address, <<>>, len, jtag_read_register(probe, address, len, fail))
    /\ jprev' = Summary(jop)

JtagWriteRegister(address, data, len, fail) ==
    /\ probe.open
    /\ Ran("write_register", address, data, len,
           jtag_write_register(probe, address, data, len, fail))
    /\ jprev' = Summary(jop)

SelectProtocol(protocol, fault) ==
    /\ probe.open
    /\ LET o == select_protocol(probe, protocol, fault)
       IN  /\ probe' = o.probe
           /\ jop' = [Op("select_protocol", 0, <<>>, 0, o) EXCEPT !.requested = protocol]
    /\ UNCHANGED <<evars, svars, cvars, wvars, dvars>>
    /\ jprev' = Summary(jop)

Attach(fault) ==
    /\ probe.open
    /\ Ran("attach", 0, <<>>, 0, attach_jlink(probe, fault))
    /\ jprev' = Summary(jop)

(***************************************************************************)
(* DebugProbe::set_speed                                                   *)
(***************************************************************************)
\* DebugProbe::speed
speed(p) == p.speed_khz

\* DebugProbeError::UnsupportedSpeed(speed_khz)
UnsupportedSpeed(speed_khz) == [Err("UnsupportedSpeed") EXCEPT !.val = speed_khz]

\* What handle.read_speeds() returns: an error (ok = FALSE), or the base
\* frequency in Hz and the smallest divider of the probe.
NoSpeeds == [ok |-> FALSE, base_freq |-> 0, min_div |-> 0]
SpeedInfo(base_freq, min_div) == [ok |-> TRUE, base_freq |-> base_freq, min_div |-> min_div]

Max(a, b) == IF a >= b THEN a ELSE b

\* The speed set_speed asks the probe for: the request itself if the probe
\* reports no speeds, else the base frequency divided by the smallest divider
\* that does not exceed the request, rounded up to kHz.
ActualSpeed(speed_khz, speeds) ==
    IF speeds.ok
    THEN LET speed_hz == 1000 * speed_khz
             div == Max((speeds.base_freq + speed_hz - 1) \div speed_hz, speeds.min_div)
         IN  ((speeds.base_freq \div div) + 999) \div 1000
    ELSE speed_khz

\* A faulty variant of set_speed: the requested speed is recorded, not the
\* one the probe was set to.
set_speed_StoresRequest(p, speed_khz, speeds, ok) ==
    IF speed_khz = 0 \/ speed_khz >= 65535
    THEN Outcome(p, <<>>, UnsupportedSpeed(speed_khz))
    ELSE LET actual_speed_khz == ActualSpeed(speed_khz, speeds)
         IN  IF actual_speed_khz > speed_khz
             THEN Outcome(p, <<>>, UnsupportedSpeed(speed_khz))
             ELSE IF ~ok THEN Outcome(p, <<>>, Err("ProbeSpecific"))
             ELSE Outcome([p EXCEPT !.speed_khz = speed_khz], <<>>, Ok(actual_speed_khz))

\* DebugProbe::set_speed(speed_khz); speeds: what read_speeds returns,
\* ok: handle.set_speed succeeds.
set_speed(p, speed_khz, speeds, ok) ==
    IF speed_khz = 0 \/ speed_khz >= 65535
    THEN Outcome(p, <<>>, UnsupportedSpeed(speed_khz))
    ELSE LET actual_speed_khz == ActualSpeed(speed_khz, speeds)
         IN  IF actual_speed_khz > speed_khz
             THEN Outcome(p, <<>>, UnsupportedSpeed(speed_khz))
             ELSE IF ~ok THEN Outcome(p, <<>>, Err("ProbeSpecific"))
             ELSE Outcome([p EXCEPT !.speed_khz = actual_speed_khz], <<>>,
                          Ok(actual_speed_khz))

\* `speed_khz: u32` arguments: 0, the smallest and the largest accepted
\* one (0xfffe), 0xffff, a larger one and some between.
SpeedRequests == {0, 1, 7, 4000, 12000, 65534, 65535, 100000}

\* Base frequencies (Hz) and smallest dividers probes report.
BaseFrequencies == {12000000, 48000000}
MinDividers == {1, 4}
Speeds == {NoSpeeds} \cup {SpeedInfo(b, d) : b \in BaseFrequencies, d \in MinDividers}

\* A call of set_speed; the history keeps the request as `address`.
SetSpeed(speed_khz, speeds, ok) ==
    /\ probe.open
    /\ Ran("set_speed", speed_khz, <<>>, 0, set_speed(probe, speed_khz, speeds, ok))
    /\ jprev' = Summary(jop)

(***************************************************************************)
(* SwoAccess::read_swo_timeout                                             *)
(***************************************************************************)
\* Time is counted in ticks from the entry of read_swo_timeout.
\*   config         0: swo_config is None, else the poll interval
\*                  swo_poll_interval_hint gives for swo_config
\*   pc             "idle" | "loop" (in the loop of read_swo_timeout)
\*   timeout        the argument
\*   now            the time
\*   end, poll_interval, bytes   the locals (bytes: the length of `bytes`)
\*   polls          swo_read calls made by the call (history)
\*   op, result     the last call and the value it returned
NoSwo ==
    [config |-> 0, pc |-> "idle", op |-> "none", timeout |-> 0, now |-> 0, end |-> 0,
     poll_interval |-> 0, bytes |-> 0, polls |-> 0, result |-> Ok(0)]

\* `timeout` arguments, poll intervals of the configurations, the time one
\* swo_read takes, the time a sleep takes beyond its argument, and the bytes
\* one swo_read delivers
Timeouts == {0, 1, 3, 6}
PollIntervals == {1, 2}
ReadTimes == {0, 1}
Oversleep == {0, 1}
ChunkSizes == {0, 1}

\* enable_swo(config): swo_config is set, then the probe is told; ok: the
\* probe accepted
EnableSwo(interval, ok) ==
    /\ swo.pc = "idle"
    /\ swo' = [swo EXCEPT !.config = interval, !.op = "enable_swo",
                          !.result = IF ok THEN Ok(0) ELSE Err("ArchitectureSpecific")]
    /\ UNCHANGED <<evars, svars, cvars, jvars, dvars>>

\* disable_swo
DisableSwo(ok) ==
    /\ swo.pc = "idle"
    /\ swo' = [swo EXCEPT !.config = 0, !.op = "disable_swo",
                          !.result = IF ok THEN Ok(0) ELSE Err("ArchitectureSpecific")]
    /\ UNCHANGED <<evars, svars, cvars, jvars, dvars>>

\* read_swo_timeout(timeout) up to its loop: `end`, `poll_interval`
\* (swo_config.unwrap() panics for None), `bytes`
ReadSwoTimeout(timeout) ==
    /\ swo.pc = "idle"
    /\ swo' = IF swo.config = 0
              THEN [swo EXCEPT !.op = "read_swo_timeout", !.result = Panic]
              ELSE [swo EXCEPT !.op = "read_swo_timeout",
                               !.pc = "loop", !.timeout = timeout, !.now = 0,
                               !.end = 0 + timeout, !.poll_interval = swo.config,
                               !.bytes = 0, !.polls = 0, !.result = NoRet]
    /\ UNCHANGED <<evars, svars, cvars, jvars, dvars>>

\* A faulty variant of SwoPoll: the deadline is computed anew in every
\* iteration.
SwoPoll_SlidingDeadline(ok, took, chunk, over) ==
    /\ swo.pc = "loop"
    /\ LET now == swo.now + took
       IN  swo' = IF ~ok
                  THEN [swo EXCEPT !.pc = "idle", !.now = now, !.polls = @ + 1,
                                   !.result = Err("ArchitectureSpecific")]
                  ELSE IF now + swo.poll_interval < now + swo.timeout
                  THEN [swo EXCEPT !.now = now + swo.poll_interval + over,
                                   !.end = now + swo.timeout,
                                   !.polls = @ + 1, !.bytes = @ + chunk]
                  ELSE [swo EXCEPT !.pc = "idle", !.now = now, !.polls = @ + 1,
                                   !.bytes = @ + chunk,
                                   !.result = Ok(swo.bytes + chunk)]
    /\ UNCHANGED <<evars, svars, cvars, jvars, dvars>>

\* One iteration of the loop: swo_read (ok: it succeeds, after `took` ticks,
\* with `chunk` bytes), then sleep (`over` ticks longer than asked) or break
\* and return Ok(bytes).
SwoPoll(ok, took, chunk, over) ==
    /\ swo.pc = "loop"
    /\ LET now == swo.now + took
       IN  swo' = IF ~ok
                  THEN [swo EXCEPT !.pc = "idle", !.now = now, !.polls = @ + 1,
                                   !.result = Err("ArchitectureSpecific")]
                  ELSE IF now + swo.poll_interval < swo.end
                  THEN [swo EXCEPT !.now = now + swo.poll_interval + over,
                                   !.polls = @ + 1, !.bytes = @ + chunk]
                  ELSE [swo EXCEPT !.pc = "idle", !.now = now, !.polls = @ + 1,
                                   !.bytes = @ + chunk,
                                   !.result = Ok(swo.bytes + chunk)]
    /\ UNCHANGED <<evars, svars, cvars, jvars, dvars>>

(***************************************************************************)
(* Debugger::process_next_request (debugger/src/debugger.rs)               *)
(***************************************************************************)
\* The values of CoreStatus; two halt reasons stand for HaltReason.
CoreStatuses ==
    {"Unknown", "Running", "Sleeping", "LockedUp", "Halted(Request)", "Halted(Breakpoint)"}

is_halted(core_status) == core_status \in {"Halted(Request)", "Halted(Breakpoint)"}

\* The function names of supported_commands.
SupportedCommands ==
    {"status", "next", "pause", "read_memory", "write", "set_breakpoint",
     "clear_breakpoint", "restart", "configuration_done", "threads",
     "set_breakpoints", "stack_trace", "scopes", "source", "variables", "continue"}

\* The function names for which a sleeping core is halted first.
HaltingCommands ==
    {"configuration_done", "set_breakpoint", "set_breakpoints", "clear_breakpoint",
     "stack_trace", "threads", "scopes", "variables", "read_memory", "write", "source"}

\* What listen_for_request can hand to process_next_request: nothing, one of the
\* commands matched by name, a supported command, or a command that is not in
\* the list.
DapRequests ==
    {"None", "disconnect", "terminate", "quit", "help", "unsupported"} \cup SupportedCommands

\* What a command of the debug adapter leaves in last_known_status: "-" leaves
\* it alone, any other value is assigned by the command.
CommandEffects == {"-", "Running", "Halted(Breakpoint)"}

\* The calls of one process_next_request that can fail, and "none".
DebuggerFaults == {"none", "attach_core", "status", "halt", "run", "send"}

\* A debug session that has just started: the adapter knows nothing of the core.
NoDebugger ==
    [alive |-> TRUE, last_known_status |-> "Unknown", request |-> "-",
     entry_status |-> "Unknown", core |-> <<>>, events |-> <<>>,
     unhalt_me |-> FALSE, polled |-> "-", command_status |-> "-",
     command_left |-> "-", result |-> "-"]

\* listen_for_request returned `request`: the history of the call starts here.
listen_for_request(d, request) ==
    [d EXCEPT !.request = request, !.entry_status = d.last_known_status,
              !.core = <<>>, !.events = <<>>, !.unhalt_me = FALSE,
              !.polled = "-", !.command_status = "-", !.command_left = "-",
              !.result = "-"]

\* One call that reaches the session, the core or the probe, and whether it
\* returned Ok.
CoreOp(d, op, ok) == [d EXCEPT !.core = Append(@, [op |-> op, ok |-> ok])]

\* process_next_request returns r; debug_session goes on only after
\* Ok(ContinueSession).
Returned(d, r) == [d EXCEPT !.result = r, !.alive = (r = "ContinueSession")]

\* send_event(event, ..)?  The entry keeps the last known status at the time
\* of the call.
send_event(d, event, ok) ==
    Returned([d EXCEPT !.events = Append(@, [event |-> event,
                                             last_known_status |-> d.last_known_status,
                                             ok |-> ok])],
             IF ok THEN "ContinueSession" ELSE "Err")

\* The event is sent while the last known status is still the old one.
status_changed_NotYet(d, new_status) == d

\* debug_adapter.last_known_status = new_status
status_changed(d, new_status) == [d EXCEPT !.last_known_status = new_status]

\* The arm for `None`: no client request is pending.
poll_core(d, fault, new_status) ==
    IF d.last_known_status = "Unknown" \/ is_halted(d.last_known_status)
    THEN Returned(d, "ContinueSession")
    ELSE LET a == CoreOp(d, "attach_core", fault # "attach_core")
             s == [CoreOp(a, "status", fault # "status")
                     EXCEPT !.polled = IF fault = "status" THEN "Err" ELSE new_status]
             u == status_changed(s, new_status)
         IN  IF fault = "attach_core" THEN Returned(a, "Err")
             ELSE IF fault = "status" THEN Returned(s, "Err")
             ELSE IF new_status = d.last_known_status THEN Returned(s, "ContinueSession")
             ELSE CASE new_status \in {"Running", "Sleeping"} ->
                           send_event(u, "continued", fault # "send")
                    [] is_halted(new_status) ->
                           send_event(u, "stopped", fault # "send")
                    [] OTHER -> Returned(u, "Err")

\* The sleeping core is halted before one of HaltingCommands.
halt_if_sleeping(d, function_name, fault, current_status) ==
    IF function_name \notin HaltingCommands THEN d
    ELSE LET s == [CoreOp(d, "status", fault # "status")
                     EXCEPT !.polled = IF fault = "status" THEN "Err" ELSE current_status]
             h == CoreOp(s, "halt", fault # "halt")
         IN  IF fault = "status" THEN Returned(s, "Err")
             ELSE IF current_status # "Sleeping" THEN s
             ELSE IF fault = "halt" THEN Returned(h, "Err")
             ELSE [h EXCEPT !.last_known_status = "Halted(Request)", !.unhalt_me = TRUE]

\* The command itself: a method of the debug adapter, which works on the core
\* and may assign last_known_status.  command_left keeps the status it leaves.
command(d, command_ok, effect) ==
    LET left == IF effect = "-" THEN d.last_known_status ELSE effect
    IN  [CoreOp(d, "command", command_ok)
           EXCEPT !.command_status = IF command_ok THEN "Ok" ELSE "Err",
                  !.last_known_status = left, !.command_left = left]

\* `if unhalt_me`, entered only when the command returned Ok.
unhalt_OnlyAfterSuccess(d, run_ok) ==
    IF ~d.unhalt_me \/ d.command_status = "Err" THEN d
    ELSE IF run_ok THEN [CoreOp(d, "run", TRUE) EXCEPT !.last_known_status = "Running"]
    ELSE Returned(CoreOp(d, "run", FALSE), "Err")

\* `if unhalt_me`: Core::run, and the last known status on its success.
unhalt(d, run_ok) ==
    IF ~d.unhalt_me THEN d
    ELSE IF run_ok THEN [CoreOp(d, "run", TRUE) EXCEPT !.last_known_status = "Running"]
    ELSE Returned(CoreOp(d, "run", FALSE), "Err")

\* The arm for a supported command.
run_command(d, function_name, fault, current_status, command_ok, effect) ==
    LET a == CoreOp(d, "attach_core", fault # "attach_core")
        h == halt_if_sleeping(a, function_name, fault, current_status)
        c == command(h, command_ok, effect)
        r == unhalt(c, fault # "run")
    IN  IF fault = "attach_core" THEN Returned(a, "Err")
        ELSE IF h.result # "-" THEN h
        ELSE IF r.result # "-" THEN r
        ELSE Returned(r, IF command_ok THEN "ContinueSession" ELSE "Err")

\* The arm for `Some(request)`.
handle_request(d, request, fault, current_status, command_ok, effect) ==
    CASE request \in {"disconnect", "quit"} ->
             Returned(d, IF fault = "send" THEN "Err"
                         ELSE IF request = "quit" THEN "TerminateDebugger"
                         ELSE "TerminateSession")
      [] request = "terminate" ->
             LET a == CoreOp(d, "attach_core", fault # "attach_core")
             IN  IF fault = "attach_core" THEN Returned(a, "Err")
                 ELSE Returned(command(a, command_ok, effect),
                               IF command_ok THEN "TerminateSession" ELSE "Err")
      [] request = "help" -> Returned(d, "ContinueSession")
      [] request = "unsupported" ->
             \* `command_ok` stands for the adapter type: a DAP client gets
             \* an error, the command line goes on.
             Returned(d, IF command_ok THEN "ContinueSession" ELSE "Err")
      [] OTHER -> run_command(d, request, fault, current_status, command_ok, effect)

process_next_request(d, request, fault, core_status, command_ok, effect) ==
    IF request = "None"
    THEN poll_core(listen_for_request(d, request), fault, core_status)
    ELSE handle_request(listen_for_request(d, request), request, fault, core_status,
                        command_ok, effect)

\* One turn of the loop of debug_session with no request pending.
PollCore(fault, new_status) ==
    /\ dbg.alive
    /\ dbg' = process_next_request(dbg, "None", fault, new_status, TRUE, "-")
    /\ UNCHANGED <<evars, svars, cvars, jvars, wvars>>

\* One turn of the loop of debug_session with a request of the client.
HandleRequest(request, fault, current_status, command_ok, effect) ==
    /\ dbg.alive
    /\ request # "None"
    /\ dbg' = process_next_request(dbg, request, fault, current_status, command_ok, effect)
    /\ UNCHANGED <<evars, svars, cvars, jvars, wvars>>

\* debug(): after a session that ended with an error or TerminateSession the
\* next client gets a new DebugAdapter.
DebugSession ==
    /\ ~dbg.alive
    /\ dbg.result # "TerminateDebugger"
    /\ dbg' = NoDebugger
    /\ UNCHANGED <<evars, svars, cvars, jvars, wvars>>

DebuggerNext ==
    \/ \E fault \in DebuggerFaults, new_status \in CoreStatuses : PollCore(fault, new_status)
    \/ \E request \in DapRequests, fault \in DebuggerFaults, current_status \in CoreStatuses,
          command_ok \in BOOLEAN, effect \in CommandEffects :
           HandleRequest(request, fault, current_status, command_ok, effect)
    \/ DebugSession

(***************************************************************************)
(* Specifications                                                          *)
(***************************************************************************)
Init ==
    /\ stack = <<>>
    /\ ret = NoRet
    /\ status = "idle"
    /\ result = NoRet
    /\ obs = InitObs(NoRequest)
    /\ session = NoSession
    /\ life = "none"
    /\ outcome = NoRet
    /\ handle = <<>>
    /\ calls = <<>>
    /\ call = NoRequest
    /\ swd_io_sequence = <<>>
    /\ direction = <<>>
    /\ probe = NoProbe
    /\ jop = NoOp
    /\ jprev = Summary(NoOp)
    /\ swo = NoSwo
    /\ dbg = NoDebugger

Next ==
    \/ \E req \in Requests : CallRegister(req)
    \/ SwdIoError
    \/ \E ack \in AckPatterns : RegNack(ack)
    \/ \E ack \in AckPatterns : RegWait(ack)
    \/ \E ack \in AckPatterns : RegFault(ack)
    \/ \E ack \in AckPatterns, d \in DataValues : ReadOkAP(ack, d)
    \/ \E ack \in AckPatterns, d \in DataValues, p \in BOOLEAN : ReadOkDP(ack, d, p)
    \/ \E ack \in AckPatterns : WriteOk(ack)
    \/ \E ack \in AckPatterns : LineResetIo(ack)
    \/ AfterLineReset
    \/ AfterAbort
    \/ AfterCtrl
    \/ AfterRdbuff
    \/ RetryExhausted
    \/ LineResetDone

Spec == Init /\ [][Next]_vars

SessionNext ==
    \/ \E core_type \in CoreTypes, m \in AttachMethods :
          \E failAt \in 0..Len(ArmSteps("UnderReset")), dropFailAt \in 0..Len(DropSteps) :
             SessionNew(core_type, m, failAt, dropFailAt)
    \/ \E n \in CoreIndices, fault \in {"none", "bind", "init"} : SessionCore(n, fault)
    \/ ReleaseCore
    \/ \E failAt \in 0..Len(DropSteps) : SessionDrop(failAt)

SessionSpec == Init /\ [][SessionNext]_vars

SequenceNext ==
    \/ \E port \in Ports, address \in Addresses : ReadSequence(port, address)
    \/ \E port \in Ports, address \in Addresses, value \in Values :
          WriteSequence(port, address, value)
    \/ LineResetSequence
    \/ AttachSequence

SequenceSpec == Init /\ [][SequenceNext]_vars

Probes == {<<TRUE, {"Swd", "Jtag"}>>, <<TRUE, {"Jtag"}>>, <<FALSE, {"Jtag"}>>}

ShiftNext ==
    \/ JLinkNew(TRUE, {"Swd", "Jtag"})
    \/ \E n \in IdleCycles : SetIdleCycles(n)
    \/ \E data \in DataBytes, len \in Lengths, ioOk \in BOOLEAN : WriteIr(data, len, ioOk)
    \/ \E len \in Lengths, ioOk \in BOOLEAN : ReadDr(len, ioOk)
    \/ \E data \in DataBytes, len \in Lengths, ioOk \in BOOLEAN : WriteDr(data, len, ioOk)

ShiftSpec == Init /\ [][ShiftNext]_vars

JtagNext ==
    \/ \E hw \in Probes : JLinkNew(hw[1], hw[2])
    \/ \E address \in JtagAddresses, len \in RegisterLengths, fail \in 0..2 :
          JtagReadRegister(address, len, fail)
    \/ \E address \in JtagAddresses, data \in RegisterData, len \in RegisterLengths,
          fail \in 0..2 : JtagWriteRegister(address, data, len, fail)
    \/ \E protocol \in {"Swd", "Jtag"}, fault \in SelectFaults :
          SelectProtocol(protocol, fault)
    \/ \E fault \in AttachFaults : Attach(fault)

JtagSpec == Init /\ [][JtagNext]_vars

SpeedNext ==
    \/ \E hw \in Probes : JLinkNew(hw[1], hw[2])
    \/ \E speed_khz \in SpeedRequests, speeds \in Speeds, ok \in BOOLEAN :
          SetSpeed(speed_khz, speeds, ok)

SpeedSpec == Init /\ [][SpeedNext]_vars

SwoStep ==
    \E ok \in BOOLEAN, took \in ReadTimes, chunk \in ChunkSizes, over \in Oversleep :
        SwoPoll(ok, took, chunk, over)

SwoNext ==
    \/ \E interval \in PollIntervals, ok \in BOOLEAN : EnableSwo(interval, ok)
    \/ \E ok \in BOOLEAN : DisableSwo(ok)
    \/ \E timeout \in Timeouts : ReadSwoTimeout(timeout)
    \/ SwoStep

\* The thread that called read_swo_timeout goes on running: the loop takes
\* its next iteration.
SwoSpec == Init /\ [][SwoNext]_vars /\ WF_vars(SwoStep)

\* The debugger's request loop alone.
DebuggerSpec == Init /\ [][DebuggerNext]_vars

(***************************************************************************)
(* Properties of the transaction engine (specification Spec)               *)
(***************************************************************************)
Done == status = "done"
IsDpRead(req) == req.op = "read" /\ req.port = "DebugPort"
IsApRead(req) == req.op = "read" /\ req.port = "AccessPort"

\* The top-level call got five answers, all of them WAIT, and the transport
\* never failed.
FiveWaits ==
    Done /\ obs.sent = 5 /\ obs.allWait /\ obs.okAck = <<>> /\ ~obs.transportFailed

\* XOR of the 32 bits of the word v
WordParity(v) == XorFold(ShiftOutBits(v, 32))

\* What the OK path returns for the top-level request: Ok for a write, the
\* parity-checked word for a Debug-Port read, the RDBUFF read's value for an
\* Access-Port read that succeeds.
OkPathResult ==
    CASE obs.req.op = "write" -> result = Ok(0)
      [] IsDpRead(obs.req) ->
            result = IF WordParity(obs.dpData) = obs.dpParity
                     THEN Ok(obs.dpData) ELSE Err("IncorrectParity")
      [] OTHER -> obs.rdbuffCalls = 1 /\ (result.ok => result.val = obs.rdbuffData)

\* C1 (as stated): a call whose request was answered WAIT five times in a row
\* returns Timeout.
C1_Original == FiveWaits => result = Err("Timeout")

\* C1: a request is transmitted at most five times; a call whose request was
\* answered WAIT five times returns Timeout if the ABORT write that follows
\* the fifth WAIT succeeded, and that write's error otherwise.
C1_TimeoutAfterFiveWaits ==
    /\ obs.sent <= 5
    /\ FiveWaits => /\ obs.aborts = 5
                    /\ result = IF obs.abortErr = "-"
                                THEN Err("Timeout") ELSE Err(obs.abortErr)

C1_Witness == FiveWaits /\ obs.abortErr = "-" /\ result = Err("Timeout")

\* A frame's transaction: direction, port, register address, value
Transaction(f) == <<f.op, f.port, f.addr, f.value>>

\* C2 (as stated): recovery never issues a transaction from within the
\* recovery of that same transaction, so that the nesting of recovery, and with
\* it the number of probe transactions of a call, has a bound.
C2_BoundedRecovery ==
    \A i, j \in 1..Len(stack) : i < j => Transaction(stack[i]) # Transaction(stack[j])

\* The top-level call got three answers: WAIT, WAIT and then OK.
WaitWaitOk ==
    Done /\ obs.sent = 3 /\ obs.allWait /\ obs.okAck = AckOk /\ ~obs.transportFailed

\* C3 (as stated): after WAIT, WAIT, OK the call has made two ABORT writes of
\* ORUNERRCLR alone and returns a successful result.
C3_Original == WaitWaitOk => (obs.aborts = 2 /\ ~obs.otherAbort /\ result.ok)

\* C3: as long as every answer was WAIT the call has made one ABORT write of
\* ORUNERRCLR alone per transmission; after WAIT, WAIT, OK it has transmitted
\* three times, made two such writes, and returns what the OK path yields:
\* Ok for a write, the word or IncorrectParity for a Debug-Port read, the
\* outcome of the RDBUFF read for an Access-Port read.
C3_WaitWaitOk ==
    /\ (obs.allWait /\ obs.okAck = <<>>) => (obs.aborts = obs.sent /\ ~obs.otherAbort)
    /\ WaitWaitOk => (obs.aborts = 2 /\ ~obs.otherAbort /\ OkPathResult)

C3_Witness == WaitWaitOk /\ obs.aborts = 2 /\ result.ok /\ ~obs.nestedAbort

\* C4: the request of a call is never transmitted while a no-acknowledge is
\* pending, i.e. without a line reset since the no-acknowledge.
C4_LineResetBeforeRetry ==
    [][(status = "running" /\ obs'.req = obs.req /\ obs'.sent = obs.sent + 1)
          => obs.nack # "pending"]_vars

C4_Witness == obs.sent >= 2 /\ obs.nack = "reset"

\* The top-level call ended right after a FAULT answer whose CTRL/STAT read
\* showed a sticky flag, with attempts left and no transport failure.
EndedAfterRecoverableFault ==
    /\ Done /\ obs.sent < 5 /\ ~obs.transportFailed
    /\ obs.ctrlRead >= 0
    /\ ((obs.ctrlRead \div 2) % 2 = 1 \/ (obs.ctrlRead \div 32) % 2 = 1)

\* C5 (as stated): after a FAULT with STICKYORUN or STICKYERR set the request
\* is retried, so a call with attempts left does not end there.
C5_Original == ~EndedAfterRecoverableFault

\* The top-level frame waits for the ABORT write it issued after a FAULT.
InFaultAbort == status = "running" /\ Len(stack) >= 1 /\ stack[1].pc = "fabort"

\* C5: the ABORT write issued after a FAULT has ORUNERRCLR (16) set exactly
\* when the CTRL/STAT read showed STICKYORUN (bit 1) and STKERRCLR (4) exactly
\* when it showed STICKYERR (bit 5); when that write returns Ok the same
\* request goes into its next attempt, and when it fails the call returns
\* the write's error.
C5_FaultRecovery ==
    /\ [](InFaultAbort /\ Len(stack) >= 2 =>
            /\ stack[2].op = "write" /\ stack[2].port = "DebugPort" /\ stack[2].addr = 0
            /\ stack[2].value = 16 * ((obs.ctrlRead \div 2) % 2)
                                + 4 * ((obs.ctrlRead \div 32) % 2)
            /\ stack[2].value # 0)
    /\ [][(InFaultAbort /\ Len(stack) = 1 /\ ret # NoRet) =>
            IF ret.ok
            THEN stack' = <<[stack[1] EXCEPT !.retry = @ + 1, !.pc = "io", !.ctrl = 0]>>
            ELSE Done' /\ result' = ret]_vars

C5_Witness ==
    /\ status = "running" /\ Len(stack) = 1 /\ stack[1].pc = "io" /\ stack[1].retry >= 1
    /\ obs.ctrlRead = 34 /\ obs.otherAbort

\* C6: when the CTRL/STAT read after a FAULT shows neither STICKYORUN nor
\* STICKYERR, the call returns FaultResponse in its next step, with no ABORT
\* write and no further transmission.
C6_UnrecoverableFault ==
    [][(status = "running" /\ Len(stack) = 1 /\ stack[1].pc = "ctrl" /\ ret.ok
        /\ (ret.val \div 2) % 2 = 0 /\ (ret.val \div 32) % 2 = 0)
          => /\ Done' /\ result' = Err("FaultResponse")
             /\ obs'.aborts = obs.aborts /\ obs'.sent = obs.sent
             /\ obs'.nestedAbort = obs.nestedAbort]_vars

C6_Witness == Done /\ obs.ctrlRead = 0 /\ result = Err("FaultResponse") /\ obs.aborts = 0

\* C7: a successful Access-Port read has issued one RDBUFF read and returns
\* the word delivered to it, whatever word its own response carried.
C7_ApReadReturnsRdbuff ==
    (Done /\ IsApRead(obs.req) /\ result.ok)
        => (obs.rdbuffCalls = 1 /\ result.val = obs.rdbuffData)

C7_Witness ==
    Done /\ IsApRead(obs.req) /\ result.ok /\ obs.apData # result.val /\ obs.apData # 0

\* C8: a Debug-Port read taken as acknowledged ends the call at once, with the
\* word delivered least-significant bit first if the parity bit is the XOR of
\* its 32 bits and with IncorrectParity otherwise.
C8_DpReadParity ==
    (IsDpRead(obs.req) /\ obs.okAck # <<>>)
        => /\ Done
           /\ result = IF WordParity(obs.dpData) = obs.dpParity
                       THEN Ok(obs.dpData) ELSE Err("IncorrectParity")

C8_Witness ==
    /\ Done /\ IsDpRead(obs.req) /\ obs.okAck = AckOk /\ obs.sent = 1
    /\ result = Err("IncorrectParity")

\* C9 (as stated): no call returns WaitResponse.
C9_NoWaitResponse == ~(Done /\ result = Err("WaitResponse"))

(***************************************************************************)
(* Properties of the session (specification SessionSpec)                   *)
(***************************************************************************)
\* C10: a live session has run one attach handshake and each debug sequence
\* hook at most once, and a core(n) call on a session whose core 0 is
\* attached runs no hook and no handshake and leaves the core states as
\* they are.
C10_CoreAttachOnce ==
    /\ [](life = "live" =>
            /\ session.cores[1].attached
            /\ Count(session.events, Handshakes) = 1
            /\ \A h \in Hooks : Count(session.events, {h}) <= 1)
    /\ [][(life = "live" /\ session.cores[1].attached /\ Len(calls') = Len(calls) + 1)
            => (session'.events = session.events /\ session'.cores = session.cores)]_vars

C10_Witness ==
    /\ life = "live" /\ calls = <<0, 0>> /\ outcome.ok /\ handle = <<0>>
    /\ Count(session.events, Handshakes) = 1

\* The place of the first entry `name` in the log `events` (0: none).
Position(events, name) ==
    IF \E i \in 1..Len(events) : events[i] = name
    THEN CHOOSE i \in 1..Len(events) :
            events[i] = name /\ \A j \in 1..(i - 1) : events[j] # name
    ELSE 0

\* The step `first` was run, and run before the step `second`.
Before(events, first, second) ==
    0 < Position(events, first) /\ Position(events, first) < Position(events, second)

ArmUnderReset == session.arch = "Arm" /\ session.attach_method = "UnderReset"

\* C11: in the construction of an ARM session under reset, the reset line is
\* released only after reset_catch_set was run (and returned Ok), the wait for
\* the halt only after the release, and reset_catch_clear only after the wait
\* for the halt returned Ok; the line stays asserted until the release.
C11_ResetCatchOrder ==
    ArmUnderReset =>
        /\ Position(session.events, "target_reset_deassert") > 0
              => Before(session.events, "reset_catch_set", "target_reset_deassert")
        /\ Position(session.events, "wait_for_core_halted") > 0
              => Before(session.events, "target_reset_deassert", "wait_for_core_halted")
        /\ Position(session.events, "reset_catch_clear") > 0
              => Before(session.events, "wait_for_core_halted", "reset_catch_clear")
        /\ session.reset_line = "deasserted"
              => Position(session.events, "reset_catch_set") > 0
        /\ \A h \in {"reset_catch_set", "target_reset_deassert",
                     "wait_for_core_halted", "reset_catch_clear"} :
              Count(session.events, {h}) <= 1

C11_Witness ==
    /\ life = "live" /\ ArmUnderReset /\ session.reset_line = "deasserted"
    /\ Before(session.events, "reset_catch_set", "target_reset_deassert")
    /\ Before(session.events, "wait_for_core_halted", "reset_catch_clear")

NamedSteps ==
    {"get_target_from_selector", "try_into_arm_interface", "try_into_riscv_interface",
     "debug_port_setup", "initialize", "memory_interface", "debug_core_start",
     "reset_catch_set", "target_reset_deassert", "wait_for_core_halted",
     "reset_catch_clear", "halt", "clear_all_hw_breakpoints"}

C14_BreakpointClear ==
    /\ [](/\ outcome = Err("clear_all_hw_breakpoints") => life = "failed"
          /\ (life = "live" /\ calls = <<>>) => outcome.ok
          /\ session.warned => life \in {"failed", "dropped"})
    /\ [][(life = "live" /\ life' # "live")
            => (life' = "dropped" /\ outcome' = outcome /\ handle' = <<>>)]_vars

C14_Witness ==
    life = "failed" /\ outcome = Err("clear_all_hw_breakpoints") /\ session.warned

\* A session was dropped and the breakpoint clear of the drop failed.
C14_DropWitness == life = "dropped" /\ session.warned

ArmOnlySteps ==
    Hooks \cup {"try_into_arm_interface", "initialize", "memory_interface",
                "target_reset_deassert", "wait_for_core_halted", "init_arm"}

\* C16: the construction of a RISC-V session runs no debug sequence hook and
\* no other step of the ARM construction; a session that is returned has
\* obtained the RISC-V interface, attached to core 0 and then halted it, once,
\* before the breakpoint clear; a failing halt makes the construction fail.
C16_RiscvConstruction ==
    session.arch = "Riscv" =>
        /\ Count(session.events, ArmOnlySteps) = 0
        /\ Count(session.events, {"halt"}) <= 1
        /\ Position(session.events, "halt") > 0
              => /\ Before(session.events, "try_into_riscv_interface", "init_riscv")
                 /\ Before(session.events, "init_riscv", "halt")
        /\ Position(session.events, "clear_all_hw_breakpoints") > 0
              => Before(session.events, "halt", "clear_all_hw_breakpoints")
        /\ life = "live" => Position(session.events, "clear_all_hw_breakpoints") > 0
        /\ outcome = Err("halt") => life = "failed"

C16_Witness ==
    /\ life = "live" /\ session.arch = "Riscv"
    /\ session.events = <<"get_target_from_selector", "try_into_riscv_interface",
                          "init_riscv", "halt", "clear_all_hw_breakpoints">>

\* Session::new has been entered with a target.
HasTarget == session.target # NoTarget

\* C28: the debug sequence of a target that Target::new built is the Arm
\* variant exactly when the architecture of its core type is Arm and the
\* Riscv variant otherwise; once a session holds the target, neither its core
\* type nor its debug sequence changes; the interface variant of the session
\* therefore agrees with the debug sequence variant, and no call of
\* Session::new ends in the 'Should not happen' panic.
C28_DebugSequenceAgrees ==
    /\ [](HasTarget =>
            /\ session.target.core_type \in CoreTypes
            /\ session.target.debug_sequence \in Architectures
            /\ (session.target.debug_sequence = "Arm")
                  <=> (architecture(session.target.core_type) = "Arm")
            /\ (session.target.debug_sequence = "Riscv")
                  <=> (architecture(session.target.core_type) = "Riscv")
            /\ session.arch = session.target.debug_sequence)
    /\ [](outcome # Panic)
    /\ [][HasTarget => session'.target = session.target]_vars

\* An ARM session has been returned: both matches on the debug sequence were
\* passed, and the session was used and dropped with the target it was built on.
C28_Witness ==
    /\ life = "dropped" /\ calls # <<>>
    /\ session.arch = "Arm" /\ session.target = TargetNew("M33")
    /\ Position(session.events, "debug_port_setup") > 0
    /\ Position(session.events, "debug_core_start") > 0

\* A RISC-V session has been returned.
C28_RiscvWitness ==
    /\ life = "live" /\ session.arch = "Riscv"
    /\ session.target = [core_type |-> "Riscv", debug_sequence |-> "Riscv"]

(***************************************************************************)
(* Properties of the bit sequences (specification SequenceSpec)            *)
(***************************************************************************)
\* Position of the first data bit of a write: after 2 idle bits, 8 request
\* bits, 3 acknowledgement bits and 2 turnaround bits.
WriteDataStart == 2 + 8 + 3 + 2 + 1
DataBits == SubSeq(swd_io_sequence, WriteDataStart, WriteDataStart + 31)
ParityBit == swd_io_sequence[WriteDataStart + 32]

\* C17: the sequence of a write carries the value in 32 host-driven bits,
\* least significant bit first: bit i of the data field is bit i of the
\* value, and bits_to_byte of the data field is the value.
C17_WriteDataRoundTrip ==
    call.op = "write" =>
        /\ \A i \in 1..32 :
              /\ DataBits[i] = BitAt(call.value, i - 1)
              /\ direction[WriteDataStart + i - 1]
        /\ bits_to_byte(DataBits) = call.value

C17_Witness ==
    /\ call = Request("write", "AccessPort", 12, 305419896)
    /\ ~DataBits[1] /\ DataBits[4] /\ DataBits[29] /\ ~DataBits[32]
    /\ bits_to_byte(DataBits) = 305419896

\* What the parity check of a Debug-Port read returns for the word v
\* delivered with the parity bit p.
ReadCheck(v, p) ==
    CheckedValue(DecodeRegister(Sampled(Frame("read", "DebugPort", RdBuffAddress, 0),
                                        AckOk, v, p)).rest)

\* C18: the bit that follows the data bits of a write is their exclusive or,
\* which is 1 exactly when the value has an odd number of 1 bits; a
\* Debug-Port read that delivers the value accepts it with this parity bit
\* and rejects it with the other one.
C18_WriteParity ==
    call.op = "write" =>
        /\ ParityBit = (Cardinality({i \in 1..32 : DataBits[i]}) % 2 = 1)
        /\ ParityBit = (CountOnes(call.value) % 2 = 1)
        /\ direction[WriteDataStart + 32]
        /\ ReadCheck(call.value, ParityBit) = Ok(call.value)
        /\ ReadCheck(call.value, ~ParityBit) = Err("IncorrectParity")

C18_Witness ==
    /\ call.op = "write" /\ call.value = 2147483647
    /\ ParityBit
    /\ ReadCheck(2147483647, TRUE) = Ok(2147483647)

\* The 8 request bits of the sequence, in front of the acknowledgement.
Header == SubSeq(swd_io_sequence, AckOffset(call) - 7, AckOffset(call))
HeaderOf(f) == SubSeq(Sequence(f).io, AckOffset(f) - 7, AckOffset(f))

\* C19: the 8 request bits are start = 1, APnDP, RnW, A2, A3, parity, stop = 0,
\* park = 1, all driven by the host; the parity bit is 1 exactly when an odd
\* number of APnDP, RnW, A2, A3 are 1; addresses that agree in bits 2 and 3
\* give the same request bits.
C19_RequestHeader ==
    call.op \in {"read", "write", "line_reset"} =>
        LET apndp == call.port = "AccessPort"
            rnw == call.op # "write"
            a2 == BitAt(call.addr, 2)
            a3 == BitAt(call.addr, 3)
            four == <<apndp, rnw, a2, a3>>
            odd == Cardinality({k \in 1..4 : four[k]}) % 2 = 1
        IN  /\ Header = <<TRUE, apndp, rnw, a2, a3, odd, FALSE, TRUE>>
            /\ \A i \in (AckOffset(call) - 7)..AckOffset(call) : direction[i]
            /\ \A a \in Addresses :
                  (BitAt(a, 2) = a2 /\ BitAt(a, 3) = a3)
                      => HeaderOf([call EXCEPT !.addr = a]) = Header

C19_Witness ==
    /\ call.op = "write" /\ call.port = "AccessPort" /\ call.addr = 65535
    /\ Header = <<TRUE, TRUE, FALSE, TRUE, TRUE, TRUE, FALSE, TRUE>>

\* C20: the io sequence and the direction sequence handed to swd_io have the
\* same length, for a read, for a write with its idle cycles and for the line
\* reset; so have the two sequences build_swd_transfer returns.
C20_EqualLengths ==
    /\ Len(swd_io_sequence) = Len(direction)
    /\ call.op \in {"read", "write", "line_reset"} =>
          LET t == build_swd_transfer(call.port,
                                      IF call.op = "write" THEN "write" ELSE "read",
                                      call.value, call.addr)
          IN  /\ Len(t.io) = Len(t.dir)
              /\ Len(swd_io_sequence) = SequenceLen(call)

C20_Witness ==
    /\ call.op = "write"
    /\ Len(swd_io_sequence) = 2 + 8 + 3 + 2 + 32 + 1 + WriteIdleCycles
    /\ Len(direction) = Len(swd_io_sequence)
    /\ \A i \in 1..WriteIdleCycles : direction[Len(direction) - i + 1]

(***************************************************************************)
(* The sequence of a write in the engine (specification Spec)              *)
(***************************************************************************)
\* The sequence of the write frame f has, after the acknowledgement, 2
\* released bits, the 32 bits of the value and their parity driven, and
\* then 8 or more driven low bits up to its end.
WriteLayout(f) ==
    LET s == Sequence(f)
        a == AckOffset(f) + 3
    IN  /\ Len(s.io) = Len(s.dir)
        /\ Len(s.io) >= a + 2 + 32 + 1 + 8
        /\ \A i \in 1..2 : ~s.dir[a + i]
        /\ \A i \in 1..32 : s.dir[a + 2 + i] /\ s.io[a + 2 + i] = BitAt(f.value, i - 1)
        /\ s.dir[a + 35] /\ s.io[a + 35] = (CountOnes(f.value) % 2 = 1)
        /\ \A i \in (a + 36)..Len(s.io) : s.dir[i] /\ ~s.io[i]

\* C21: every write the engine has in progress, the caller's or an ABORT
\* write of a recovery, in its first or a later iteration of the retry loop,
\* transmits a sequence with 2 released turnaround bits, 32 driven data bits,
\* a driven parity bit and 8 driven low idle bits after the acknowledgement.
C21_WriteIdleCycles ==
    \A i \in 1..Len(stack) : stack[i].op = "write" => WriteLayout(stack[i])

C21_Witness ==
    /\ Len(stack) >= 2
    /\ Top.op = "write" /\ Top.addr = AbortAddress /\ Top.value = AbortValue(TRUE, FALSE)
    /\ Top.retry >= 1 /\ Transmitting(Top)
    /\ WriteLayout(Top)

(***************************************************************************)
(* Line reset and protocol initialisation (specification SequenceSpec)     *)
(***************************************************************************)
\* The sequence drives n high bits first.
HighBits(n) ==
    /\ Len(swd_io_sequence) >= n
    /\ \A i \in 1..n : swd_io_sequence[i] /\ direction[i]

\* The JTAG to SWD sequence is driven at the positions k+1 .. k+16.
PatternAt(k) ==
    /\ Len(swd_io_sequence) >= k + 16
    /\ SubSeq(swd_io_sequence, k + 1, k + 16) = jtag_to_swd_sequence
    /\ \A i \in (k + 1)..(k + 16) : direction[i]

\* The original statement of C22: every line reset, at attach or after a
\* no-acknowledge, is 50 or more high bits, then the JTAG to SWD sequence,
\* then an idle tail.
C22_Original ==
    call.op \in {"line_reset", "attach"} =>
        \E n \in 50..Len(swd_io_sequence) :
            /\ HighBits(n)
            /\ PatternAt(n)
            /\ Len(swd_io_sequence) > n + 16
            /\ \A i \in (n + 17)..Len(swd_io_sequence) : ~swd_io_sequence[i]

\* C22, as the code has it: the sequence of swd_line_reset, at attach and
\* after a no-acknowledge, is 50 driven high bits, 2 driven low bits and the
\* request of a read of DP register 0, and holds the JTAG to SWD sequence
\* nowhere; the JTAG to SWD sequence is sent by attach only, after 64 driven
\* high bits, and ends that sequence.
C22_LineReset ==
    /\ call.op = "line_reset" =>
          /\ HighBits(50)
          /\ Len(swd_io_sequence) = 50 + 2 + 8 + 3 + 32 + 1 + 1
          /\ \A i \in 51..52 : ~swd_io_sequence[i] /\ direction[i]
          /\ SubSeq(swd_io_sequence, 53, 60)
                = <<TRUE, FALSE, TRUE, FALSE, FALSE, TRUE, FALSE, TRUE>>
          /\ \A i \in 61..Len(swd_io_sequence) : ~swd_io_sequence[i] /\ ~direction[i]
          /\ \A k \in 0..(Len(swd_io_sequence) - 16) : ~PatternAt(k)
    /\ call.op = "attach" =>
          /\ HighBits(64)
          /\ PatternAt(64)
          /\ Len(swd_io_sequence) = 64 + 16

C22_Witness ==
    /\ call.op = "line_reset"
    /\ HighBits(50) /\ ~HighBits(51)
    /\ ~PatternAt(50)

C22_AttachWitness ==
    /\ call.op = "attach"
    /\ HighBits(64) /\ PatternAt(64)

(***************************************************************************)
(* swd_line_reset (specification Spec)                                     *)
(***************************************************************************)
\* The line reset called by the top-level call is in progress / has returned
\* to it.
InLineReset == Len(stack) = 2 /\ Top.op = "line_reset"
LineResetReturned == Len(stack) = 1 /\ Top.pc = "reset" /\ ret # NoRet

\* The error that goes with an acknowledgement other than OK.
AckError(a) ==
    IF a = <<FALSE, TRUE, FALSE>> THEN "WaitResponse"
    ELSE IF a = <<FALSE, FALSE, TRUE>> THEN "FaultResponse"
    ELSE "NoAcknowledge"

\* C23: swd_line_reset transmits its sequence at most twice; it returns Ok
\* exactly when the last transmission, the first or the second, was
\* acknowledged OK and none before it was; after two transmissions not
\* acknowledged OK it returns the error of the second acknowledgement; it
\* returns a transport error at once, after fewer than two acknowledged
\* transmissions.
C23_LineResetTwice ==
    LET acks == obs.resetAcks
        n == Len(acks)
    IN  /\ n <= 2
        /\ \A i \in 1..(n - 1) : acks[i] # <<TRUE, FALSE, FALSE>>
        /\ InLineReset => (Top.retry = n /\ \A i \in 1..n : acks[i] # <<TRUE, FALSE, FALSE>>)
        /\ LineResetReturned =>
              IF ret.ok
              THEN n >= 1 /\ acks[n] = <<TRUE, FALSE, FALSE>>
              ELSE IF ret.err = "ProbeSpecific"
              THEN n <= 1 /\ \A i \in 1..n : acks[i] # <<TRUE, FALSE, FALSE>>
              ELSE /\ n = 2
                   /\ acks[2] # <<TRUE, FALSE, FALSE>>
                   /\ ret.err = AckError(acks[2])

C23_Witness ==
    /\ LineResetReturned
    /\ obs.resetAcks = <<<<FALSE, FALSE, TRUE>>, <<FALSE, TRUE, FALSE>>>>
    /\ ret = Err("WaitResponse")

C23_OkWitness ==
    /\ LineResetReturned
    /\ obs.resetAcks = <<<<TRUE, TRUE, TRUE>>, <<TRUE, FALSE, FALSE>>>>
    /\ ret.ok

(***************************************************************************)
(* The JTAG shift functions (specification ShiftSpec)                      *)
(***************************************************************************)
\* Bit k (from 0) of the bytes data, the least significant bit of the first
\* byte being bit 0.
DataBit(data, k) == BitAt(data[(k \div 8) + 1], k % 8)

\* The io call has the TMS pattern `enter`, then n - 1 low shift cycles,
\* then high, high, low (the first high leaves the shift state) and `idle`
\* low cycles; its TDI sequence is as long and is low except, if `sent`, for
\* the bits of `data` in the n cycles that end with the one leaving the shift
\* state.
ShiftLayout(io, enter, n, idle, sent, data) ==
    LET e == Len(enter)
    IN  /\ Len(io.tms) = e + (n - 1) + 3 + idle
        /\ Len(io.tdi) = Len(io.tms)
        /\ SubSeq(io.tms, 1, e) = enter
        /\ \A i \in (e + 1)..(e + n - 1) : ~io.tms[i]
        /\ io.tms[e + n] /\ io.tms[e + n + 1] /\ ~io.tms[e + n + 2]
        /\ \A i \in (e + n + 3)..Len(io.tms) : ~io.tms[i]
        /\ \A i \in 1..Len(io.tdi) :
              io.tdi[i] = (sent /\ i > e /\ i <= e + n /\ DataBit(data, i - e - 1))

\* C30: write_ir, read_dr and write_dr make at most one jtag_io call, and
\* its TMS and TDI sequences have the same length: the pattern that enters
\* the shift state, len - 1 shift cycles, the exit on which the last data bit
\* is sent, the way to idle, and for the DR functions the idle cycles.
C30_EqualShiftLengths ==
    /\ Len(jop.ios) <= 1
    /\ (jop.ios # <<>> /\ jop.op = "write_ir")
          => ShiftLayout(jop.ios[1], <<TRUE, TRUE, FALSE, FALSE>>, jop.len, 0, TRUE, jop.data)
    /\ (jop.ios # <<>> /\ jop.op = "read_dr")
          => ShiftLayout(jop.ios[1], <<TRUE, FALSE, FALSE>>, jop.len, jop.idle, FALSE, jop.data)
    /\ (jop.ios # <<>> /\ jop.op = "write_dr")
          => ShiftLayout(jop.ios[1], <<TRUE, FALSE, FALSE>>, jop.len, jop.idle, TRUE, jop.data)
    /\ (jop.op \in {"write_ir", "read_dr", "write_dr"} /\ jop.len >= 1
            /\ (jop.op = "read_dr" \/ Len(jop.data) * 8 >= jop.len))
          => Len(jop.ios) = 1

C30_Witness ==
    /\ jop.op = "write_dr" /\ jop.len = 9 /\ jop.idle = 7 /\ jop.data = <<255, 1>>
    /\ jop.result.ok
    /\ Len(jop.ios[1].tms) = 21 /\ Len(jop.ios[1].tdi) = 21
    /\ jop.ios[1].tms[12] /\ jop.ios[1].tdi[12]

C30_ReadWitness ==
    /\ jop.op = "read_dr" /\ jop.len = 32 /\ jop.idle = 7
    /\ Len(jop.ios[1].tms) = 44 /\ Len(jop.ios[1].tdi) = 44

\* write_ir was called with enough data for len bits, len >= 1, and its
\* jtag_io call succeeded.
WriteIrShifted ==
    /\ jop.op = "write_ir" /\ jop.len >= 1 /\ Len(jop.data) * 8 >= jop.len
    /\ jop.result.err # "ProbeSpecific"

\* C26: write_ir shifts and records every register of 1 to 8 bits and
\* rejects only longer ones with NotImplemented.
C26_UpTo8Bits ==
    WriteIrShifted =>
        IF jop.len <= 8
        THEN jop.result.ok /\ probe.current_ir_reg = jop.data[1]
        ELSE jop.result = Err("NotImplemented")

\* C27: write_ir returns an error, without a panic and without a jtag_io
\* call, when data holds fewer than len bits.
C27_ShortDataError ==
    (jop.op = "write_ir" /\ Len(jop.data) * 8 < jop.len) =>
        /\ ~jop.result.ok
        /\ jop.result # Panic
        /\ jop.ios = <<>>

(***************************************************************************)
(* The cached IR register (specification JtagSpec)                         *)
(***************************************************************************)
IsAccess(o) == o.op \in {"read_register", "write_register"}

\* The jtag_io call is a write of the 5-bit IR value v / a DR access.
IsIrWrite(io, v) ==
    /\ Len(io.tms) = 4 + 4 + 3
    /\ SubSeq(io.tms, 1, 4) = <<TRUE, TRUE, FALSE, FALSE>>
    /\ BitsValue(io.tdi, 5, 9) = v
IsDrAccess(io) ==
    /\ Len(io.tms) >= 3
    /\ SubSeq(io.tms, 1, 3) = <<TRUE, FALSE, FALSE>>

\* C24: a register access that follows a successful access to the same
\* address makes one jtag_io call, the DR access; an access to an accepted
\* address other than the cached one writes the IR first (and makes the DR
\* access only after that write succeeded), one to the cached address does
\* not write the IR.
C24_RepeatSkipsIrWrite ==
    IsAccess(jop) =>
        /\ (IsAccess(jprev) /\ jprev.ok /\ jop.address = jprev.address)
              => (Len(jop.ios) = 1 /\ IsDrAccess(jop.ios[1]))
        /\ (jop.address <= 31 /\ jop.address # jop.ir_before)
              => /\ Len(jop.ios) \in 1..2
                 /\ IsIrWrite(jop.ios[1], jop.address)
                 /\ Len(jop.ios) = 2 => IsDrAccess(jop.ios[2])
                 /\ jop.result.ok => Len(jop.ios) = 2
        /\ (jop.address <= 31 /\ jop.address = jop.ir_before)
              => (Len(jop.ios) = 1 /\ IsDrAccess(jop.ios[1]))

C24_Witness ==
    /\ jop.op = "read_register" /\ jop.address = 16 /\ jop.result.ok
    /\ jprev.op = "write_register" /\ jprev.address = 16 /\ jprev.ok
    /\ Len(jop.ios) = 1 /\ IsDrAccess(jop.ios[1])

C24_OtherWitness ==
    /\ jop.op = "read_register" /\ jop.address = 31 /\ jop.result.ok
    /\ jprev.op = "read_register" /\ jprev.address = 16 /\ jprev.ok
    /\ Len(jop.ios) = 2 /\ IsIrWrite(jop.ios[1], 31)

\* C25: the first register access after an attach that reset the JTAG chain,
\* or after a successful select_protocol, writes the IR.
C25_CacheInvalidated ==
    (/\ IsAccess(jop) /\ jop.address <= 31
     /\ (jprev.reset \/ (jprev.op = "select_protocol" /\ jprev.ok)))
        => (jop.ios # <<>> /\ IsIrWrite(jop.ios[1], jop.address))

(***************************************************************************)
(* read_swo_timeout (specification SwoSpec)                                *)
(***************************************************************************)
\* read_swo_timeout has returned because the deadline was reached.
DeadlineReached ==
    /\ swo.pc = "idle" /\ swo.op = "read_swo_timeout"
    /\ swo.result \notin {Err("ArchitectureSpecific"), Panic}

\* The original statement of C29: at the deadline a timeout error is
\* returned.
C29_Original == DeadlineReached => swo.result = Err("Timeout")

\* C29, as the code has it: the deadline and the poll interval are fixed at
\* the entry; the loop reads at least once, sleeps the poll interval between
\* two reads and ends; at the deadline the call returns Ok with the bytes
\* read, and the only error it returns is that of a failed swo_read.
C29_ReadSwoTimeout ==
    /\ [][(swo.pc = "loop" /\ swo'.pc = "loop")
             => /\ swo'.end = swo.end /\ swo.end = swo.timeout
                /\ swo'.poll_interval = swo.poll_interval
                /\ swo'.polls = swo.polls + 1
                /\ swo'.now >= swo.now + swo.poll_interval]_vars
    /\ [](swo.pc = "loop" => swo.polls * swo.poll_interval <= swo.now /\ swo.now < swo.end + 2)
    /\ [](DeadlineReached
             => /\ swo.result = Ok(swo.bytes)
                /\ swo.polls >= 1
                /\ swo.now + swo.poll_interval >= swo.end)
    /\ [](swo.result.ok \/ swo.result.err \in {"pending", "panic", "ArchitectureSpecific"})
    /\ (swo.pc = "loop") ~> (swo.pc = "idle")

C29_Witness ==
    /\ DeadlineReached
    /\ swo.timeout = 6 /\ swo.poll_interval = 2 /\ swo.polls = 3
    /\ swo.result = Ok(2)

(***************************************************************************)
(* Decoded positions and driven positions (specification SequenceSpec)     *)
(***************************************************************************)
\* The position in the sampled sequence of the last acknowledgement bit the
\* engine takes for the call: where the BitIter stands after the split_off
\* calls of read_register / write_register, or of swd_line_reset.
AckEnd ==
    LET resp == Sampled(call, AckOk, 0, FALSE)
    IN  IF call.op = "line_reset"
        THEN SplitOff(SplitOff(resp, LineResetBits + 2 + 8).rest, 3).rest.pos
        ELSE DecodeRegister(resp).rest.pos

\* The positions the engine decodes: the three acknowledgement bits, and for
\* a read the 32 data bits and the parity bit that follow them.
DecodedPositions ==
    ((AckEnd - 2)..AckEnd)
        \cup (IF call.op = "read" THEN (AckEnd + 1)..(AckEnd + 33) ELSE {})

\* The positions of the bits the host sends: the reset bits of a line reset,
\* the two idle bits and the 8 request bits, and for a write the data bits,
\* the parity bit and the idle cycles at the end.
SentPositions ==
    (1..AckOffset(call))
        \cup (IF call.op = "write"
              THEN WriteDataStart..(WriteDataStart + 32 + WriteIdleCycles)
              ELSE {})

\* C31: every position the engine decodes from the sampled response (the 3
\* acknowledgement bits after the 2 idle and 8 request bits, after 50 more
\* bits in a line reset; for a read the 32 data bits and the parity bit) is
\* released in the direction sequence, and the host drives every reset, idle,
\* request, write-data and write-parity bit.
C31_DecodedBitsReleased ==
    call.op \in {"read", "write", "line_reset"} =>
        /\ AckEnd = AckOffset(call) + 3
        /\ AckOffset(call) = (IF call.op = "line_reset" THEN 50 ELSE 0) + 2 + 8
        /\ DecodedPositions \subseteq 1..Len(direction)
        /\ SentPositions \subseteq 1..Len(direction)
        /\ \A i \in DecodedPositions : ~direction[i]
        /\ \A i \in SentPositions : direction[i]

C31_Witness ==
    /\ call.op = "read" /\ call.port = "DebugPort"
    /\ DecodedPositions = 11..46
    /\ \A i \in 1..10 : direction[i]
    /\ \A i \in 11..46 : ~direction[i]

C31_LineResetWitness ==
    /\ call.op = "line_reset"
    /\ DecodedPositions = 61..63 /\ ~direction[61] /\ direction[60]

(***************************************************************************)
(* Acknowledgements taken as success (specification Spec)                  *)
(***************************************************************************)
\* C32: read_register / write_register return success only if the request
\* was acknowledged with exactly OK (first bit set, second and third clear):
\* no other acknowledgement, the all-zero one included, is taken as success.
C32_OnlyExactOk ==
    /\ obs.okAck \in {<<>>, AckOk}
    /\ (status = "done" /\ result.ok) => obs.okAck = AckOk

\* What the code does: the acknowledgement taken as success is OK or all-zero,
\* and an acknowledgement with the second or third bit set never is.
OkPathAcks == obs.okAck \in {<<>>, AckOk, <<FALSE, FALSE, FALSE>>}

\* A Debug-Port read answered with the all-zero acknowledgement has returned
\* the word sampled after it.
ZeroAckSuccess ==
    /\ status = "done" /\ result.ok /\ obs.req.op = "read"
    /\ obs.okAck = <<FALSE, FALSE, FALSE>> /\ obs.sent = 1

(***************************************************************************)
(* The cached IR register (specification JtagSpec)                         *)
(***************************************************************************)
\* C33: the cached IR register is at most 0x1f; a register access that is
\* accepted and whose jtag_io calls succeed leaves in it the address of the
\* access; an access with an address above 0x1f returns NotImplemented, makes
\* no jtag_io call and leaves the cache as it was, so that the cache keeps
\* the address of the access accepted before it; no operation other than a
\* register access changes the cache.
C33_CachedIrRegister ==
    /\ [](probe.current_ir_reg \in 0..31)
    /\ []((IsAccess(jop) /\ jop.address <= 31 /\ jop.result.ok)
             => probe.current_ir_reg = jop.address)
    /\ []((IsAccess(jop) /\ jop.address > 31)
             => /\ jop.result = Err("NotImplemented")
                /\ jop.ios = <<>>
                /\ probe.current_ir_reg = jop.ir_before
                /\ (IsAccess(jprev) /\ jprev.ok)
                      => probe.current_ir_reg = jprev.address)
    /\ [][(probe.open /\ ~IsAccess(jop'))
             => probe'.current_ir_reg = probe.current_ir_reg]_vars

\* An access to 0x20 was rejected after a successful access to 0x1f.
C33_Witness ==
    /\ jop.op = "write_register" /\ jop.address = 32
    /\ jop.result = Err("NotImplemented")
    /\ jprev.op = "read_register" /\ jprev.address = 31 /\ jprev.ok
    /\ probe.current_ir_reg = 31

\* A successful access left its address in the cache.
C33_AcceptedWitness ==
    /\ jop.op = "read_register" /\ jop.address = 16 /\ jop.result.ok
    /\ jop.ir_before = 31 /\ probe.current_ir_reg = 16

(***************************************************************************)
(* The reset line under attach-under-reset (specification SessionSpec)     *)
(***************************************************************************)
\* C34: a session that Session::new returned in attach-under-reset mode has
\* had the reset line deasserted during its construction, whatever the
\* architecture of the target.
C34_ResetDeasserted ==
    (life \in {"live", "dropped"} /\ session.attach_method = "UnderReset")
        => /\ Count(session.events, {"target_reset_deassert"}) = 1
           /\ session.reset_line = "deasserted"

\* What the code does for an ARM target: the line is deasserted, once.
ArmResetDeasserted ==
    (life \in {"live", "dropped"} /\ ArmUnderReset)
        => /\ Count(session.events, {"target_reset_deassert"}) = 1
           /\ session.reset_line = "deasserted"

\* What the code does for a RISC-V target: target_reset_deassert is not
\* called, in either attach mode.
RiscvNeverDeasserts ==
    session.arch = "Riscv" => Count(session.events, {"target_reset_deassert"}) = 0

\* A RISC-V session has been returned in attach-under-reset mode.
RiscvUnderResetReturned ==
    /\ life = "live" /\ session.arch = "Riscv" /\ session.attach_method = "UnderReset"
    /\ outcome.ok /\ session.reset_line = "asserted"

(***************************************************************************)
(* Core indices (specification SessionSpec)                                *)
(***************************************************************************)
\* The core numbers list_cores reports for the session.
ListedCores == {list_cores(session)[i][1] : i \in 1..Len(list_cores(session))}

\* C35: a call of Session::core(n) returns CoreNotFound(n) exactly when n is
\* not a core number list_cores reports, i.e. not below the number of cores;
\* such a call runs no attach step and leaves the session with its core
\* states as it was, and returns no handle.
C35_CoreNotFound ==
    /\ [](life = "live" => ListedCores = 0..(Len(session.cores) - 1))
    /\ [][calls' # calls =>
            LET n == calls'[Len(calls')]
            IN  /\ (n \notin ListedCores) <=> (outcome' = CoreNotFound(n))
                /\ (n >= Len(session.cores)) <=> (outcome'.err = "CoreNotFound")
                /\ (n \notin ListedCores)
                      => (session' = session /\ handle' = <<>> /\ life' = life)]_vars

\* core(1) was refused on a session of one core, after core(0) was served.
C35_Witness ==
    /\ life = "live" /\ Len(calls) = 2 /\ calls[1] = 0 /\ calls[2] = 1
    /\ outcome = CoreNotFound(1) /\ handle = <<>>
    /\ list_cores(session) = <<<<0, session.target.core_type>>>>

(***************************************************************************)
(* set_speed (specification SpeedSpec)                                     *)
(***************************************************************************)
\* C36: speed() is 0 after construction and changes only in a successful
\* set_speed, to the value that call returns; so it always is the value the
\* latest successful call returned.  A request of 0 or of 0xffff and more
\* returns UnsupportedSpeed, and every failing call leaves speed() as it was;
\* a successful call returns a speed of at least 1 and at most the request.
C36_SpeedIsLastReturned ==
    /\ [](jop.op = "new" => speed(probe) = 0)
    /\ []((jop.op = "set_speed" /\ jop.result.ok)
             => /\ speed(probe) = jop.result.val
                /\ jop.result.val \in 1..jop.address)
    /\ []((jop.op = "set_speed" /\ (jop.address = 0 \/ jop.address >= 65535))
             => jop.result = UnsupportedSpeed(jop.address))
    /\ []((jop.op = "set_speed" /\ jprev.op = "set_speed" /\ jprev.ok /\ ~jop.result.ok)
             => speed(probe) \in 1..jprev.address)
    /\ [][(probe.open /\ ~(jop'.op = "set_speed" /\ jop'.result.ok))
             => speed(probe') = speed(probe)]_vars

\* A request above what the probe can do was served with a lower speed, and
\* a failing call after it left that speed in place.
C36_Witness ==
    /\ jop.op = "set_speed" /\ jop.address = 65535
    /\ jop.result = UnsupportedSpeed(65535)
    /\ jprev.op = "set_speed" /\ jprev.address = 65534 /\ jprev.ok
    /\ speed(probe) = 12000

\* With the speeds drawn here the test `actual_speed_khz > speed_khz` never
\* fires: UnsupportedSpeed is returned for requests out of range only.
UnsupportedOnlyOutOfRange ==
    (jop.op = "set_speed" /\ jop.result.err = "UnsupportedSpeed")
        => (jop.address = 0 \/ jop.address >= 65535)

C36_LowerWitness ==
    /\ jop.op = "set_speed" /\ jop.address = 12000 /\ jop.result = Ok(3000)
    /\ speed(probe) = 3000

(***************************************************************************)
(* The recorded protocol (specification JtagSpec)                          *)
(***************************************************************************)
\* The protocols the probe can select: the interfaces it reports if it has
\* the SELECT_IF capability, JTAG alone if it has not.
Selectable == IF probe.select_if THEN probe.interfaces ELSE {"Jtag"}

\* C37: the recorded protocol is none after construction and changes only in
\* a successful select_protocol, to the argument of that call; so it always
\* is the argument of the latest successful call.  A call succeeds only for
\* a protocol the probe can select (JTAG alone without the interface-select
\* capability); for any other it returns UnsupportedProtocol, unless reading
\* the capabilities or the interfaces failed first, and every failing call
\* leaves the recorded protocol as it was.
C37_RecordedProtocol ==
    /\ [](jop.op = "new" => probe.protocol = "None")
    /\ [](jop.op = "select_protocol" =>
            /\ jop.result.ok => (probe.protocol = jop.requested
                                    /\ jop.requested \in Selectable)
            /\ (jop.requested \notin Selectable)
                  => jop.result.err \in {"UnsupportedProtocol", "ProbeSpecific"}
            /\ (jop.requested \in Selectable)
                  => jop.result.err \in {"-", "ProbeSpecific"}
            /\ (~probe.select_if /\ jop.result.ok) => jop.requested = "Jtag")
    /\ [][(probe.open /\ ~(jop'.op = "select_protocol" /\ jop'.result.ok))
             => probe'.protocol = probe.protocol]_vars

\* SWD was refused by a probe that has JTAG only, after JTAG was selected.
C37_Witness ==
    /\ jop.op = "select_protocol" /\ jop.requested = "Swd"
    /\ jop.result = Err("UnsupportedProtocol")
    /\ jprev.op = "select_protocol" /\ jprev.ok
    /\ probe.protocol = "Jtag" /\ probe.select_if

\* A probe that can select interfaces has selected SWD.
C37_SwdWitness ==
    /\ jop.op = "select_protocol" /\ jop.requested = "Swd" /\ jop.result.ok
    /\ probe.protocol = "Swd"

(***************************************************************************)
(* Transport failures (specification Spec)                                 *)
(***************************************************************************)
\* C38: once swd_io has failed during a register call, in the request itself
\* or in one of its recovery transactions, nothing is transmitted any more:
\* every frame still on the stack waits for its callee and receives the
\* ProbeSpecific error, each step only returns it one level up (no retry,
\* no ABORT write, no CTRL/STAT or RDBUFF read, no line reset), and the call
\* ends with that error.
C38_TransportFailureReturned ==
    /\ []((obs.transportFailed /\ status = "running")
             => (ret = Err("ProbeSpecific") /\ Top.pc # "io"))
    /\ []((obs.transportFailed /\ status # "running")
             => (status = "done" /\ result = Err("ProbeSpecific")))
    /\ [][(obs.transportFailed /\ status = "running")
             => /\ Len(stack') = Len(stack) - 1
                /\ obs'.sent = obs.sent /\ obs'.aborts = obs.aborts
                /\ obs'.rdbuffCalls = obs.rdbuffCalls
                /\ obs'.nestedAbort = obs.nestedAbort
                /\ obs'.transportFailed]_vars

\* The request was answered WAIT and its second transmission failed.
C38_Witness ==
    /\ status = "done" /\ obs.transportFailed /\ result = Err("ProbeSpecific")
    /\ obs.sent = 2 /\ obs.aborts = 1 /\ obs.abortErr = "-"

\* The ABORT write of a recovery failed in the transport.
C38_RecoveryWitness ==
    /\ status = "done" /\ obs.transportFailed /\ result = Err("ProbeSpecific")
    /\ obs.sent = 1 /\ obs.aborts = 1 /\ obs.abortErr = "ProbeSpecific"

(***************************************************************************)
(* The debugger: halting a sleeping core around a command, polling         *)
(***************************************************************************)
\* The names of the calls the last process_next_request made on the core.
CoreOps == [i \in 1..Len(dbg.core) |-> dbg.core[i].op]

Called(op) == \E i \in 1..Len(dbg.core) : dbg.core[i].op = op

LastCoreOp == dbg.core[Len(dbg.core)]

\* C39 as stated: whenever the debugger halted a sleeping core for a command,
\* Core::run has been called after the command and the last known status is
\* Running.
C39_Original ==
    dbg.unhalt_me => (LastCoreOp.op = "run" /\ dbg.last_known_status = "Running")

\* C39: when the debugger halted a sleeping core for one of the listed
\* commands, Core::run is called after the command whether the command
\* returned Ok or Err; the last known status becomes Running if Core::run
\* succeeds, and if it fails the request ends with an error and the last known
\* status stays what the command left.  A core that was not Sleeping, or a
\* command outside the list, is neither halted nor resumed.
C39_ResumedAfterCommand ==
    /\ dbg.unhalt_me =>
          /\ dbg.request \in HaltingCommands
          /\ dbg.polled = "Sleeping"
          /\ CoreOps = <<"attach_core", "status", "halt", "command", "run">>
          /\ dbg.command_status \in {"Ok", "Err"}
          /\ LastCoreOp.ok =>
                /\ dbg.last_known_status = "Running"
                /\ dbg.result = IF dbg.command_status = "Ok" THEN "ContinueSession" ELSE "Err"
          /\ ~LastCoreOp.ok =>
                /\ dbg.last_known_status = dbg.command_left
                /\ dbg.result = "Err"
    /\ (dbg.request \notin {"-", "None"} /\ ~dbg.unhalt_me) => ~Called("run")
    /\ (dbg.request \notin HaltingCommands \/ dbg.polled # "Sleeping") =>
          (~Called("halt") /\ ~Called("run") /\ ~dbg.unhalt_me)

\* A sleeping core was halted, the command failed, and the core was resumed.
C39_Witness ==
    /\ dbg.unhalt_me
    /\ dbg.command_status = "Err"
    /\ LastCoreOp.op = "run" /\ LastCoreOp.ok
    /\ dbg.last_known_status = "Running"

\* The same after a command that succeeded.
C39_SuccessWitness ==
    /\ dbg.unhalt_me
    /\ dbg.command_status = "Ok"
    /\ LastCoreOp.op = "run" /\ LastCoreOp.ok
    /\ dbg.result = "ContinueSession"

\* Core::run failed: the core stays halted and the status is not Running.
C39_RunFailed ==
    /\ dbg.unhalt_me
    /\ LastCoreOp.op = "run" /\ ~LastCoreOp.ok
    /\ dbg.last_known_status = "Halted(Request)"

\* A listed command on a core that is running: no halt, no run.
C39_NotSleepingWitness ==
    /\ dbg.request \in HaltingCommands
    /\ dbg.polled = "Running"
    /\ CoreOps = <<"attach_core", "status", "command">>

\* The statuses that make the debugger tell the client: "continued" for a core
\* that runs or sleeps, "stopped" for a halted one.
EventFor(core_status) == IF is_halted(core_status) THEN "stopped" ELSE "continued"

Quiet(core_status) == core_status = "Unknown" \/ is_halted(core_status)

\* C40: with no client request pending, process_next_request makes no call on
\* the core or the probe while the last known status is Unknown or Halted;
\* otherwise it attaches and polls the core status, sends a "continued" or
\* "stopped" event only when the polled status differs from the last known
\* status, and has set the last known status to the polled status when it
\* sends the event.
C40_PollOnlyWhenRunning ==
    dbg.request = "None" =>
      /\ Quiet(dbg.entry_status) =>
            /\ dbg.core = <<>>
            /\ dbg.events = <<>>
            /\ dbg.last_known_status = dbg.entry_status
            /\ dbg.result = "ContinueSession"
      /\ ~Quiet(dbg.entry_status) =>
            /\ dbg.core # <<>>
            /\ dbg.core[1].op = "attach_core"
            /\ dbg.core[1].ok => CoreOps = <<"attach_core", "status">>
      /\ dbg.events # <<>> =>
            /\ Len(dbg.events) = 1
            /\ dbg.polled \in {"Running", "Sleeping", "Halted(Request)", "Halted(Breakpoint)"}
            /\ dbg.polled # dbg.entry_status
            /\ dbg.events[1].event = EventFor(dbg.polled)
            /\ dbg.events[1].last_known_status = dbg.polled
      /\ dbg.polled = dbg.entry_status =>
            (dbg.events = <<>> /\ dbg.last_known_status = dbg.entry_status)
      /\ dbg.polled \in CoreStatuses => dbg.last_known_status = dbg.polled

\* The core was running and is found halted: one "stopped" event, sent after
\* the last known status became the polled one.
C40_Witness ==
    /\ dbg.request = "None"
    /\ dbg.entry_status = "Running"
    /\ is_halted(dbg.polled)
    /\ Len(dbg.events) = 1
    /\ dbg.events[1].event = "stopped"
    /\ dbg.events[1].last_known_status = dbg.polled

\* A halted core is not polled.
C40_QuietWitness ==
    /\ dbg.request = "None"
    /\ is_halted(dbg.entry_status)
    /\ dbg.core = <<>>
    /\ dbg.result = "ContinueSession"

\* The polled status is the last known one: no event.
C40_SameStatusWitness ==
    /\ dbg.request = "None"
    /\ dbg.entry_status = "Running"
    /\ dbg.polled = "Running"
    /\ dbg.events = <<>>

\* A sleeping core that is found running: "continued".
C40_ContinuedWitness ==
    /\ dbg.request = "None"
    /\ dbg.entry_status = "Sleeping"
    /\ dbg.polled = "Running"
    /\ Len(dbg.events) = 1
    /\ dbg.events[1].event = "continued"

====
